---- MODULE Spec2Model ----
(***************************************************************************)
(* Verification model of the sleeper-dashboard roster valuation and trade  *)
(* recommendation core: src/src/data/power-rankings.json.js and            *)
(* src/src/data/generate-trade-recommendations.js, with the snapshot       *)
(* lookups of src/unnamed/part_002 and generate-trade-analysis.js and the  *)
(* weekly summary generator of src/unnamed/part_001.                       *)
(*                                                                         *)
(* The loaders are pure batch computations over one input snapshot, so     *)
(* every component is modelled as a small state machine whose initial      *)
(* states enumerate bounded inputs and whose actions apply the functions   *)
(* of the source, translated statement by statement:                       *)
(*   SpecLineup    the two lineup optimizers                               *)
(*   SpecScarcity  calculateDynamicScarcity                                *)
(*   SpecValues    the value resolvers, then the optimizer                 *)
(*   SpecPower     the component scores, the power score and the ranking   *)
(*   SpecTrade     the two trade impact functions                          *)
(*   SpecPipeline  both loaders run twice on one snapshot                  *)
(*   SpecFair      the two fairness tests                                  *)
(*   SpecRecommend trade generation, scoring and ranking of a league       *)
(*   SpecDepth     calculateDepthScore on one roster                       *)
(*   SpecRank      the ranking of leagues of three teams                   *)
(*   SpecSnapshot  the scarcity lookups for a historical trade             *)
(*   SpecSummary   one run of the weekly summary generator                 *)
(* Numbers are exact integers; a number that comes out of a division is an *)
(* exact fraction, NaN or an infinity.                                     *)
(***************************************************************************)
EXTENDS Integers, Sequences, FiniteSets, TLC

VARIABLES
  pc,               \* position of the running loader
  slots,            \* getStartingSlots(league): slot class -> count
  players,          \* Sleeper player directory: id -> record
  playerValues,     \* Map id -> value entry (domain = ids that have an entry)
  rosterPlayerIds,  \* roster.players of the team being optimised
  lineup,           \* result of calculateOptimalLineupValue
  tradeLineup,      \* result of calculateOptimalLineup
  fallbackTables,   \* the two module-level fallback scarcity tables
  fantasyCalcData,  \* FantasyCalc feed: null, or an array of entries
  numTeams,         \* rosters.length
  scarcityMultipliers,  \* result of calculateDynamicScarcity
  leagueType,       \* LEAGUE_TYPE: "dynasty" or "redraft"
  sleeperProjections,  \* Map id -> rest-of-season points, in tenths
  matchups,         \* weeks: [lines: id -> players_points line, scores: team scores]
  dpLookup,         \* DynastyProcess row matched to each id, if any
  rosters,          \* league rosters: roster_id, players, settings.wins/losses
  teamLineups,      \* calculatePowerRankings: one optimal lineup per roster
  maxLineupValue,   \* Math.max over the lineup totals
  powerRankings,    \* the sorted, ranked team scores
  playersGiven,     \* the players a team gives in a trade
  playersReceived,  \* the players it receives
  team1Impact,      \* scoreTradeRecommendation: calculateTradeImpact(...)
  impact1,          \* generateTrades: calculateImpact(...)
  now,              \* the wall clock new Date() reads
  engineOrder,      \* the order the engine's sort leaves under an inconsistent comparator
  powerOutputs,     \* what each run of power-rankings.json.js wrote
  tradeOutputs,     \* what each run of the recommendations loader wrote
  pairOrder,        \* the order in which the team pairs are searched
  allTeams,         \* buildTeamData / getTeamRoster of every roster
  needsByTeam,      \* analyzeTeamNeeds of every team
  emitted,          \* every trade generateTrades returned, pair after pair
  recommendations,  \* generateRecommendations().recommendations
  potentialTrades,  \* every trade generateTradeCombinations returned
  pairRecommendations,    \* findMutuallyBeneficialTrades(...).recommendations per pair
  leagueRecommendations,  \* allRecommendations of main after its sort
  side1,            \* first argument of isFairTrade
  side2,            \* second argument of isFairTrade
  fairTolerance,    \* third argument of isFairTrade
  fairness,         \* isFairTrade(a, b, t) and isFairTrade(b, a, t) of both programs
  depthResult,      \* result of calculateDepthScore for one roster
  vorSnapshots,     \* vor-snapshots-history.json: snapshots and currentSnapshot
  historicalTrade,  \* season, week and superflex flag of the trade looked up
  snapshotChoice,   \* what findSnapshotForTrade and getVorScarcityForTrade return
  weeklyMatchups,   \* matchups of the summary generator: week and head-to-head scores
  summaryFiles,     \* week-summaries/week-N-LEAGUE.json: week -> stored summary
  summaryRun,       \* one run of the generator: its argument, its number, the clock
  allWeeksToProcess \* the weeks main still has to process, in order

lineupVars == <<slots, players, playerValues, rosterPlayerIds, lineup, tradeLineup>>

scarcityVars == <<fallbackTables, fantasyCalcData, numTeams, scarcityMultipliers>>

feedVars == <<leagueType, sleeperProjections, matchups, dpLookup>>

powerVars == <<rosters, teamLineups, maxLineupValue, powerRankings>>

tradeVars == <<playersGiven, playersReceived, team1Impact, impact1>>

pipelineVars == <<now, engineOrder, powerOutputs, tradeOutputs>>

recommendVars == <<pairOrder, allTeams, needsByTeam, emitted, recommendations, potentialTrades,
                   pairRecommendations, leagueRecommendations>>

fairVars == <<side1, side2, fairTolerance, fairness>>

depthVars == <<depthResult>>
snapshotVars == <<vorSnapshots, historicalTrade, snapshotChoice>>
summaryVars == <<weeklyMatchups, summaryFiles, summaryRun, allWeeksToProcess>>

vars == <<pc, lineupVars, scarcityVars, feedVars, powerVars, tradeVars, pipelineVars,
          recommendVars, fairVars, depthVars,
                 snapshotVars, summaryVars>>

\* what the loaders of one component never touch
notLineup == <<scarcityVars, feedVars, powerVars, tradeVars, pipelineVars, recommendVars,
               fairVars, depthVars,
                 snapshotVars, summaryVars>>
notScarcity == <<players, playerValues, rosterPlayerIds, lineup, tradeLineup, feedVars,
                 powerVars, tradeVars, pipelineVars, recommendVars, fairVars, depthVars,
                 snapshotVars, summaryVars>>
notValues == <<powerVars, tradeVars, pipelineVars, recommendVars, fairVars, depthVars,
                 snapshotVars, summaryVars>>
notPower == <<tradeVars, pipelineVars, recommendVars, fairVars, depthVars,
                 snapshotVars, summaryVars>>
notTrade == <<pipelineVars, recommendVars, fairVars, depthVars,
                 snapshotVars, summaryVars>>
notPipeline == <<recommendVars, fairVars, depthVars,
                 snapshotVars, summaryVars>>

-----------------------------------------------------------------------------
(* Bounds of the model                                                     *)

MaxRoster == 3
MaxFeed == 4
MaxPlayers == 2
MaxWeeks == 2
MaxTeams == 2
MaxTeamPlayers == 2
MaxScoredWeeks == 1
MaxClock == 2
MaxFairValue == 20
MaxRecommendTeams == 3
MaxRecommendPlayers == 3
MaxDepthRoster == 4
MaxRankTeams == 3
MaxSnapshots == 2
MaxSummaryWeeks == 2
MaxMatchups == 2

-----------------------------------------------------------------------------
(* Generic helpers                                                         *)

Min(a, b) == IF a <= b THEN a ELSE b
Max(a, b) == IF a >= b THEN a ELSE b

SeqToSet(s) == {s[i] : i \in 1..Len(s)}

RECURSIVE SumValues(_)
SumValues(s) == IF s = <<>> THEN 0 ELSE Head(s).value + SumValues(Tail(s))

Take(s, n) == SubSeq(s, 1, Min(n, Len(s)))

\* Array.prototype.sort((a, b) => b.value - a.value): descending by value,
\* stable (equal values keep their original order).
RECURSIVE InsertByValueDesc(_, _)
InsertByValueDesc(e, s) ==
  IF s = <<>> THEN <<e>>
  ELSE IF Head(s).value >= e.value
       THEN <<Head(s)>> \o InsertByValueDesc(e, Tail(s))
       ELSE <<e>> \o s

RECURSIVE SortByValueDesc(_)
SortByValueDesc(s) ==
  IF s = <<>> THEN <<>>
  ELSE InsertByValueDesc(s[Len(s)], SortByValueDesc(SubSeq(s, 1, Len(s) - 1)))

-----------------------------------------------------------------------------
(* Lineup optimizer                                                        *)

POSITIONS == <<"QB", "RB", "WR", "TE", "K", "DEF">>
PositionSet == SeqToSet(POSITIONS)
SlotClasses == PositionSet \cup {"FLEX", "SUPER_FLEX"}
FlexPositions == <<"RB", "WR", "TE">>
SuperFlexPositions == <<"QB", "RB", "WR", "TE">>

\* valueData?.value || 0
ValueOrZero(pv, playerId) ==
  IF playerId \in DOMAIN pv THEN pv[playerId].value ELSE 0

Reverse(s) == [i \in 1..Len(s) |-> s[Len(s) + 1 - i]]

\* Mutant of ByPosition: the comparator written a.value - b.value (ascending).
ByPositionAscending(roster, pv, pl, pos) ==
  LET kept == SelectSeq(roster, LAMBDA id : pl[id].present /\ pl[id].position = pos)
  IN Reverse(SortByValueDesc([i \in 1..Len(kept) |->
                        [playerId |-> kept[i], value |-> ValueOrZero(pv, kept[i])]]))

\* byPosition[pos] after the forEach over the roster and the per-position sort
ByPosition(roster, pv, pl, pos) ==
  LET kept == SelectSeq(roster, LAMBDA id : pl[id].present /\ pl[id].position = pos)
  IN SortByValueDesc([i \in 1..Len(kept) |->
                        [playerId |-> kept[i], value |-> ValueOrZero(pv, kept[i])]])

WithSlot(s, slot) ==
  [i \in 1..Len(s) |-> [playerId |-> s[i].playerId, value |-> s[i].value, slot |-> slot]]

RECURSIVE ConcatByPosition(_, _, _, _)
ConcatByPosition(roster, pv, pl, poss) ==
  IF poss = <<>> THEN <<>>
  ELSE ByPosition(roster, pv, pl, Head(poss)) \o ConcatByPosition(roster, pv, pl, Tail(poss))

\* the forEach over ['QB','RB','WR','TE','K','DEF'] filling the required slots
RECURSIVE FillRequired(_, _, _, _, _)
FillRequired(roster, pv, pl, sl, poss) ==
  IF poss = <<>> THEN <<>>
  ELSE WithSlot(Take(ByPosition(roster, pv, pl, Head(poss)), sl[Head(poss)]), Head(poss))
         \o FillRequired(roster, pv, pl, sl, Tail(poss))

UsedIds(starters) == {starters[i].playerId : i \in 1..Len(starters)}

\* Mutant of FillFlexible: the .filter(p => !used.has(p.playerId)) left out.
FillFlexibleNoFilter(roster, pv, pl, sl, starters, eligible, slot) ==
  LET pool == SortByValueDesc(ConcatByPosition(roster, pv, pl, eligible))
  IN starters \o WithSlot(Take(pool, sl[slot]), slot)

\* [...byPosition.X, ...].filter(p => !used.has(p.playerId)).sort(desc), then the
\* first slots[slot] of them
FillFlexible(roster, pv, pl, sl, starters, eligible, slot) ==
  LET pool == SortByValueDesc(
                SelectSeq(ConcatByPosition(roster, pv, pl, eligible),
                          LAMBDA p : p.playerId \notin UsedIds(starters)))
  IN starters \o WithSlot(Take(pool, sl[slot]), slot)

\* Mutant of OptimalStarters: the FLEX pool is built from RB and WR only.
OptimalStartersFlexWithoutTE(roster, pv, pl, sl) ==
  LET required == FillRequired(roster, pv, pl, sl, POSITIONS)
      withFlex == FillFlexible(roster, pv, pl, sl, required, <<"RB", "WR">>, "FLEX")
  IN FillFlexible(roster, pv, pl, sl, withFlex, SuperFlexPositions, "SUPER_FLEX")

OptimalStarters(roster, pv, pl, sl) ==
  LET required == FillRequired(roster, pv, pl, sl, POSITIONS)
      withFlex == FillFlexible(roster, pv, pl, sl, required, FlexPositions, "FLEX")
  IN FillFlexible(roster, pv, pl, sl, withFlex, SuperFlexPositions, "SUPER_FLEX")

calculateOptimalLineupValue(roster, pv, sl, pl) ==
  LET starters == OptimalStarters(roster, pv, pl, sl)
  IN [totalValue |-> SumValues(starters), starters |-> starters]

calculateOptimalLineup(roster, pv, sl, pl) ==
  LET starters == OptimalStarters(roster, pv, pl, sl)
  IN [starters |-> starters, starterIds |-> UsedIds(starters)]

-----------------------------------------------------------------------------
(* Scarcity model                                                          *)

\* (the source names the second table SF_SCARCITY_FALLBACK)
STATIC_SCARCITY_FALLBACK ==
  ("QB" :> 80) @@ ("RB" :> 150) @@ ("WR" :> 100) @@ ("TE" :> 120) @@ ("K" :> 20) @@ ("DEF" :> 25)

SUPERFLEX_SCARCITY_FALLBACK ==
  ("QB" :> 140) @@ ("RB" :> 150) @@ ("WR" :> 100) @@ ("TE" :> 120) @@ ("K" :> 20) @@ ("DEF" :> 25)

ModuleTables == [static |-> STATIC_SCARCITY_FALLBACK, sf |-> SUPERFLEX_SCARCITY_FALLBACK]

\* positions.includes('SUPER_FLEX') || positions.filter(p => p === 'QB').length >= 2,
\* read off the slot counts getStartingSlots derives from the same list
isSuperflexLeague(sl) == sl["SUPER_FLEX"] >= 1 \/ sl["QB"] >= 2

\* Math.round(n / d) for d > 0: the nearest integer, halves rounded up
RoundDiv(n, d) == (2 * n + d) \div (2 * d)

\* Math.floor(n / d) for d > 0
FloorDiv(n, d) == n \div d

\* a.positionRank || 999
RankOr999(e) == IF e.positionRank = 0 THEN 999 ELSE e.positionRank

\* Array.prototype.sort((a, b) => (a.positionRank || 999) - (b.positionRank || 999))
RECURSIVE InsertByRank(_, _)
InsertByRank(e, s) ==
  IF s = <<>> THEN <<e>>
  ELSE IF RankOr999(Head(s)) <= RankOr999(e)
       THEN <<Head(s)>> \o InsertByRank(e, Tail(s))
       ELSE <<e>> \o s

RECURSIVE SortByRank(_)
SortByRank(s) ==
  IF s = <<>> THEN <<>>
  ELSE InsertByRank(s[Len(s)], SortByRank(SubSeq(s, 1, Len(s) - 1)))

\* fantasyCalcData.filter(p => p.player?.position === pos).sort(by rank)
PosPlayers(feed, pos) == SortByRank(SelectSeq(feed, LAMBDA e : e.position = pos))

\* startersNeeded for one position (exact arithmetic: 0.33 = 33/100, ...)
StartersNeeded(pos, sl, teams, isSF) ==
  sl[pos] * teams
    + (IF pos \in {"RB", "WR", "TE"} THEN FloorDiv(sl["FLEX"] * teams * 33, 100) ELSE 0)
    + (IF pos = "QB" /\ isSF THEN FloorDiv(sl["SUPER_FLEX"] * teams * 4, 10)
       ELSE IF pos \in {"RB", "WR", "TE"} /\ isSF
            THEN FloorDiv(sl["SUPER_FLEX"] * teams * 2, 10)
            ELSE 0)

\* p?.redraftValue || p?.value || dflt
WorthOr(e, dflt) ==
  IF e.redraftValue # 0 THEN e.redraftValue
  ELSE IF e.value # 0 THEN e.value ELSE dflt

\* vorMultipliers[pos] after the first positions.forEach
VorMultiplier(feed, pos, sl, teams, isSF, tables) ==
  LET posPlayers == PosPlayers(feed, pos)
  IN IF Len(posPlayers) = 0
     THEN IF isSF /\ pos = "QB" THEN tables.sf[pos] ELSE tables.static[pos]
     ELSE LET replacementIndex == Min(StartersNeeded(pos, sl, teams, isSF), Len(posPlayers) - 1)
              eliteValue == WorthOr(posPlayers[1], 0)
              replacementValue == WorthOr(posPlayers[replacementIndex + 1], 100)
          IN Max(0, eliteValue - replacementValue)

\* vorMultipliers['WR'] || 1
WrVor(feed, sl, teams, isSF, tables) ==
  LET v == VorMultiplier(feed, "WR", sl, teams, isSF, tables)
  IN IF v = 0 THEN 1 ELSE v

\* Math.max(20, Math.min(200, Math.round((vorMultipliers[pos] / wrVor) * 100)))
Normalized(feed, pos, sl, teams, isSF, tables) ==
  Max(20, Min(200,
    RoundDiv(VorMultiplier(feed, pos, sl, teams, isSF, tables) * 100,
             WrVor(feed, sl, teams, isSF, tables))))

\* fetchFantasyCalcValues returns null on failure, the parsed array otherwise
NullFeed == [isArray |-> FALSE, entries |-> <<>>]
ArrayFeed(f) == [isArray |-> TRUE, entries |-> f]

\* !fantasyCalcData || !Array.isArray(fantasyCalcData) || fantasyCalcData.length === 0
NoFeed(feed) == ~feed.isArray \/ Len(feed.entries) = 0

\* Mutant of calculateDynamicScarcity: the no-feed branch always returns the
\* 1-QB table.
calculateDynamicScarcityStaticOnly(feed, sl, teams, isSF, tables) ==
  IF NoFeed(feed)
  THEN tables.static
  ELSE [pos \in PositionSet |-> Normalized(feed.entries, pos, sl, teams, isSF, tables)]

calculateDynamicScarcity(feed, sl, teams, isSF, tables) ==
  IF NoFeed(feed)
  THEN IF isSF THEN tables.sf ELSE tables.static
  ELSE [pos \in PositionSet |-> Normalized(feed.entries, pos, sl, teams, isSF, tables)]

-----------------------------------------------------------------------------
(* The value resolvers of power-rankings.json.js                           *)

\* position === 'K' ? 50 : position === 'DEF' ? 100 : 200
PositionFloor(pos) == IF pos = "K" THEN 50 ELSE IF pos = "DEF" THEN 100 ELSE 200

\* multipliers[position] || 50
MultiplierOr50(multipliers, pos) ==
  IF pos \in DOMAIN multipliers /\ multipliers[pos] # 0 THEN multipliers[pos] ELSE 50

\* A player's line of one week's players_points: scored = FALSE stands for a
\* null, undefined or absent entry; starter = matchup.starters.includes(id).
Unscored == [scored |-> FALSE, points |-> 0, starter |-> FALSE]
Scored(points, starter) == [scored |-> TRUE, points |-> points, starter |-> starter]

NoStats == [games |-> 0, totalPoints |-> 0, starterGames |-> 0]

\* playerStats.get(playerId) after the aggregation over all weeks
RECURSIVE PlayerStats(_, _)
PlayerStats(mu, playerId) ==
  IF mu = <<>> THEN NoStats
  ELSE LET rest == PlayerStats(SubSeq(mu, 1, Len(mu) - 1), playerId)
           game == mu[Len(mu)].lines[playerId]
       IN IF ~game.scored THEN rest
          ELSE [games |-> rest.games + 1,
                totalPoints |-> rest.totalPoints + game.points,
                starterGames |-> rest.starterGames + (IF game.starter THEN 1 ELSE 0)]

\* Math.round(ppg * multiplier), then Math.round(value * 1.1) for a player who
\* started more than half of the games played
PpgValue(stats, multiplier) ==
  LET base == RoundDiv(stats.totalPoints * multiplier, stats.games)
  IN IF 2 * stats.starterGames > stats.games THEN RoundDiv(11 * base, 10) ELSE base

\* fcLookup.get(playerId): the last feed entry carrying this sleeperId
NoFcData == [found |-> FALSE, redraftValue |-> 0, value |-> 0]

FcLookup(feed, playerId) ==
  LET hits == {i \in 1..Len(feed.entries) : feed.entries[i].sleeperId = playerId}
  IN IF ~feed.isArray \/ hits = {} THEN NoFcData
     ELSE LET e == feed.entries[CHOOSE i \in hits : \A j \in hits : j <= i]
          IN [found |-> TRUE, redraftValue |-> e.redraftValue, value |-> e.value]

\* sleeperProjections?.get(playerId)?.rosPoints in tenths, 0 when there is none
RosTenths(proj, playerId) == IF playerId \in DOMAIN proj THEN proj[playerId] ELSE 0

\* One iteration of the forEach over Object.entries(players) in
\* calculateEnhancedRedraftValues
EnhancedEntry(position, stats, fcData, rosTenths, multipliers) ==
  LET ecr == IF fcData.found THEN WorthOr(fcData, 0) ELSE 0
      ecrSource == IF fcData.found THEN "fantasycalc" ELSE "none"
      projected == rosTenths > 0
      \* rosProjection * 50 = 5 * tenths; value * 0.7 + projValue * 0.3
      blended == IF ~projected THEN ecr
                 ELSE IF fcData.found THEN RoundDiv(7 * ecr + 15 * rosTenths, 10)
                      ELSE 5 * rosTenths
      blendedSource == IF projected /\ ~fcData.found THEN "projection" ELSE ecrSource
      usePpg == blended = 0 /\ stats.games > 0
      produced == IF usePpg THEN PpgValue(stats, MultiplierOr50(multipliers, position))
                  ELSE blended
  IN [value |-> IF produced = 0 THEN PositionFloor(position) ELSE produced,
      valueSource |-> IF usePpg THEN "ppg" ELSE blendedSource]

\* if (!player || !player.first_name) return;
Resolvable(pl) == {id \in DOMAIN pl : pl[id].present /\ pl[id].first_name}

calculateEnhancedRedraftValues(pl, mu, feed, proj, multipliers) ==
  [id \in Resolvable(pl) |->
     EnhancedEntry(pl[id].position, PlayerStats(mu, id), FcLookup(feed, id),
                   RosTenths(proj, id), multipliers)]

\* scarcityMultipliers || (isSF ? SF_SCARCITY_FALLBACK : STATIC_SCARCITY_FALLBACK)
NullScarcity == [isNull |-> TRUE, map |-> <<>>]

calculateRedraftValues(pl, mu, isSF, scarcity, tables) ==
  LET multipliers == IF ~scarcity.isNull THEN scarcity.map
                     ELSE IF isSF THEN tables.sf ELSE tables.static
  IN [id \in Resolvable(pl) |->
        LET stats == PlayerStats(mu, id)
        IN [value |-> IF stats.games > 0
                      THEN PpgValue(stats, MultiplierOr50(multipliers, pl[id].position))
                      ELSE PositionFloor(pl[id].position),
            valueSource |-> "none"]]

\* dpMatch after the lookup by id and the lookup by name: matched, and
\* parseInt(dpMatch[valueColumn]) (0 for a column that does not parse)
NoDpMatch == [matched |-> FALSE, column |-> 0]
DpMatch(column) == [matched |-> TRUE, column |-> column]

matchPlayerValues(pl, dp) ==
  [id \in Resolvable(pl) |->
     [value |-> IF dp[id].matched THEN dp[id].column ELSE PositionFloor(pl[id].position),
      valueSource |-> "none"]]

-----------------------------------------------------------------------------
(* JavaScript numbers that come out of divisions: an exact fraction        *)
(* num / den (den > 0, lowest terms), NaN, or an infinity (num = its sign) *)

Abs(n) == IF n < 0 THEN -n ELSE n
Sign(n) == IF n < 0 THEN -1 ELSE IF n > 0 THEN 1 ELSE 0

RECURSIVE GCD(_, _)
GCD(a, b) == IF b = 0 THEN a ELSE GCD(b, a % b)

Frac(n, d) ==
  LET g == GCD(Abs(n), Abs(d))
  IN [kind |-> "num", num |-> Sign(d) * (n \div g), den |-> Abs(d) \div g]

Num(n) == [kind |-> "num", num |-> n, den |-> 1]
NaN == [kind |-> "nan", num |-> 0, den |-> 1]
Infinity(sign) == [kind |-> "inf", num |-> sign, den |-> 1]

IsNaN(x) == x.kind = "nan"

\* a + b
JsAdd(a, b) ==
  IF IsNaN(a) \/ IsNaN(b) THEN NaN
  ELSE IF a.kind = "inf" /\ b.kind = "inf"
       THEN (IF a.num = b.num THEN a ELSE NaN)
  ELSE IF a.kind = "inf" THEN a
  ELSE IF b.kind = "inf" THEN b
  ELSE Frac(a.num * b.den + b.num * a.den, a.den * b.den)

\* a * b
JsMul(a, b) ==
  IF IsNaN(a) \/ IsNaN(b) THEN NaN
  ELSE IF a.kind = "inf" \/ b.kind = "inf"
       THEN (IF a.num = 0 \/ b.num = 0 THEN NaN ELSE Infinity(Sign(a.num) * Sign(b.num)))
  ELSE Frac(a.num * b.num, a.den * b.den)

\* a - b
JsSub(a, b) == JsAdd(a, JsMul(Num(-1), b))

\* a / b: 0 / 0 is NaN, x / 0 an infinity
JsDiv(a, b) ==
  IF IsNaN(a) \/ IsNaN(b) THEN NaN
  ELSE IF a.kind = "inf" THEN (IF b.kind = "inf" THEN NaN
                               ELSE Infinity(IF b.num < 0 THEN -a.num ELSE a.num))
  ELSE IF b.kind = "inf" THEN Num(0)
  ELSE IF b.num = 0 THEN (IF a.num = 0 THEN NaN ELSE Infinity(Sign(a.num)))
  ELSE Frac(a.num * b.den, a.den * b.num)

\* a < b (false when either is NaN)
JsLess(a, b) ==
  /\ ~IsNaN(a) /\ ~IsNaN(b)
  /\ IF a.kind = "inf" /\ b.kind = "inf" THEN a.num < b.num
     ELSE IF a.kind = "inf" THEN a.num < 0
     ELSE IF b.kind = "inf" THEN b.num > 0
     ELSE a.num * b.den < b.num * a.den

\* Math.min / Math.max: NaN if an argument is NaN
MathMin(a, b) == IF IsNaN(a) \/ IsNaN(b) THEN NaN ELSE IF JsLess(b, a) THEN b ELSE a
MathMax(a, b) == IF IsNaN(a) \/ IsNaN(b) THEN NaN ELSE IF JsLess(a, b) THEN b ELSE a

\* Math.round(x * 10) / 10
RoundTenths(x) ==
  IF x.kind # "num" THEN x ELSE Frac(RoundDiv(10 * x.num, x.den), 10)

-----------------------------------------------------------------------------
(* The power score of power-rankings.json.js                               *)

\* Score of one team in a week's matchups: weekData.matchups.find(...)
RECURSIVE FindScore(_, _)
FindScore(scores, rosterId) ==
  IF scores = <<>> THEN [found |-> FALSE, points |-> 0]
  ELSE IF Head(scores).roster_id = rosterId
       THEN [found |-> TRUE, points |-> Head(scores).points]
       ELSE FindScore(Tail(scores), rosterId)

NoRecord == [wins |-> 0, losses |-> 0, ties |-> 0]

\* wins, losses and ties of calculateAllPlayRecord after the loop over weeks
RECURSIVE AllPlayTally(_, _)
AllPlayTally(rosterId, mu) ==
  IF mu = <<>> THEN NoRecord
  ELSE LET rest == AllPlayTally(rosterId, SubSeq(mu, 1, Len(mu) - 1))
           scores == mu[Len(mu)].scores
           teamMatchup == FindScore(scores, rosterId)
           opponents == {i \in 1..Len(scores) : scores[i].roster_id # rosterId}
       IN IF ~teamMatchup.found THEN rest
          ELSE [wins |-> rest.wins
                  + Cardinality({i \in opponents : teamMatchup.points > scores[i].points}),
                losses |-> rest.losses
                  + Cardinality({i \in opponents : teamMatchup.points < scores[i].points}),
                ties |-> rest.ties
                  + Cardinality({i \in opponents : teamMatchup.points = scores[i].points})]

calculateAllPlayRecord(rosterId, mu) ==
  LET t == AllPlayTally(rosterId, mu)
      total == t.wins + t.losses + t.ties
  IN [wins |-> t.wins, losses |-> t.losses, ties |-> t.ties,
      winPct |-> IF total > 0 THEN Frac(t.wins, total) ELSE Num(0)]

\* positionWeights, in tenths
positionWeights ==
  [c \in SlotClasses |->
     CASE c = "QB" -> 10 [] c = "RB" -> 13 [] c = "WR" -> 9 [] c = "TE" -> 12
       [] c = "K" -> 3 [] c = "DEF" -> 4 [] c = "FLEX" -> 8 [] c = "SUPER_FLEX" -> 11]

RECURSIVE AllStarters(_)
AllStarters(allLineups) ==
  IF allLineups = <<>> THEN <<>>
  ELSE Head(allLineups).starters \o AllStarters(Tail(allLineups))

\* positionAverages[slot] and positionCounts[slot] after the first loop of
\* calculatePositionalAdvantage.  `if (!positionAverages[slot])` is also true
\* while the running sum is 0, and then the count restarts from 0.
RECURSIVE SlotTally(_, _)
SlotTally(starters, slot) ==
  IF starters = <<>> THEN [seen |-> FALSE, sum |-> 0, count |-> 0]
  ELSE LET rest == SlotTally(SubSeq(starters, 1, Len(starters) - 1), slot)
           starter == starters[Len(starters)]
       IN IF starter.slot # slot THEN rest
          ELSE [seen |-> TRUE,
                sum |-> rest.sum + starter.value,
                count |-> (IF rest.sum = 0 THEN 0 ELSE rest.count) + 1]

\* positionAverages[slot] || 1000
AverageOr1000(allLineups, slot) ==
  LET t == SlotTally(AllStarters(allLineups), slot)
  IN IF ~t.seen \/ t.sum = 0 THEN Num(1000) ELSE Frac(t.sum, t.count)

\* totalAdvantage and totalWeight after the loop over lineup.starters
RECURSIVE AdvantageSum(_, _)
AdvantageSum(starters, allLineups) ==
  IF starters = <<>> THEN [totalAdvantage |-> Num(0), totalWeight |-> Num(0)]
  ELSE LET rest == AdvantageSum(Tail(starters), allLineups)
           avg == AverageOr1000(allLineups, Head(starters).slot)
           advantage == JsDiv(JsSub(Num(Head(starters).value), avg), avg)
           weight == Frac(positionWeights[Head(starters).slot], 10)
       IN [totalAdvantage |-> JsAdd(JsMul(advantage, weight), rest.totalAdvantage),
           totalWeight |-> JsAdd(weight, rest.totalWeight)]

calculatePositionalAdvantage(teamLineup, allLineups) ==
  LET t == AdvantageSum(teamLineup.starters, allLineups)
      normalizedAdvantage ==
        JsAdd(Num(50), JsMul(JsDiv(t.totalAdvantage, t.totalWeight), Num(50)))
  IN MathMax(Num(0), MathMin(Num(100), normalizedAdvantage))

\* `positions` of calculateDepthScore: the positions with a bench player
DepthPositions(bench) ==
  Cardinality({pos \in {"QB", "RB", "WR", "TE"} :
                 \E i \in 1..Len(bench) : bench[i].position = pos})

\* Mutant of calculateDepthScore: the empty positions stay in the denominator.
calculateDepthScoreAllPositions(roster, pv, starters, pl) ==
  LET starterIds == UsedIds(starters)
      benchIds == SelectSeq(roster, LAMBDA id : id \notin starterIds /\ pl[id].present)
      bench == [i \in 1..Len(benchIds) |->
                  [position |-> pl[benchIds[i]].position,
                   value |-> ValueOrZero(pv, benchIds[i])]]
      \* bench.sort(descending)[0].value of a position that has a bench player
      Top(pos) == CHOOSE v \in {bench[i].value : i \in {j \in 1..Len(bench) : bench[j].position = pos}} :
                    \A i \in 1..Len(bench) : bench[i].position = pos => bench[i].value <= v
      counted == {pos \in {"QB", "RB", "WR", "TE"} :
                    \E i \in 1..Len(bench) : bench[i].position = pos}
      Sum[ps \in SUBSET counted] ==
        IF ps = {} THEN 0
        ELSE LET pos == CHOOSE q \in ps : TRUE IN Top(pos) + Sum[ps \ {pos}]
      targetDepth == 4 * 2000
  IN MathMin(Num(100), JsMul(JsDiv(Num(Sum[counted]), Num(targetDepth)), Num(100)))

calculateDepthScore(roster, pv, starters, pl) ==
  LET starterIds == UsedIds(starters)
      benchIds == SelectSeq(roster, LAMBDA id : id \notin starterIds /\ pl[id].present)
      bench == [i \in 1..Len(benchIds) |->
                  [position |-> pl[benchIds[i]].position,
                   value |-> ValueOrZero(pv, benchIds[i])]]
      \* bench.sort(descending)[0].value of a position that has a bench player
      Top(pos) == CHOOSE v \in {bench[i].value : i \in {j \in 1..Len(bench) : bench[j].position = pos}} :
                    \A i \in 1..Len(bench) : bench[i].position = pos => bench[i].value <= v
      counted == {pos \in {"QB", "RB", "WR", "TE"} :
                    \E i \in 1..Len(bench) : bench[i].position = pos}
      Sum[ps \in SUBSET counted] ==
        IF ps = {} THEN 0
        ELSE LET pos == CHOOSE q \in ps : TRUE IN Top(pos) + Sum[ps \ {pos}]
      targetDepth == DepthPositions(bench) * 2000
  IN MathMin(Num(100), JsMul(JsDiv(Num(Sum[counted]), Num(targetDepth)), Num(100)))

\* Mutant of Weights: the two weight sets are exchanged.
WeightsExchanged(league) ==
  IF league = "redraft"
  THEN [lineup |-> 50, performance |-> 30, positional |-> 15, depth |-> 5]
  ELSE [lineup |-> 35, performance |-> 45, positional |-> 15, depth |-> 5]

\* weights by league type, in hundredths
Weights(league) ==
  IF league = "redraft"
  THEN [lineup |-> 35, performance |-> 45, positional |-> 15, depth |-> 5]
  ELSE [lineup |-> 50, performance |-> 30, positional |-> 15, depth |-> 5]

\* teamLineups.find(t => t.rosterId === roster.roster_id)
RECURSIVE FindLineup(_, _)
FindLineup(lineups, rosterId) ==
  IF Head(lineups).rosterId = rosterId THEN Head(lineups)
  ELSE FindLineup(Tail(lineups), rosterId)

\* Math.max(...teamLineups.map(t => t.totalValue)) of a league with a team
MaxTotal(lineups) ==
  CHOOSE m \in {lineups[i].totalValue : i \in 1..Len(lineups)} :
    \A i \in 1..Len(lineups) : lineups[i].totalValue <= m

\* One element of rosters.map(...) in calculatePowerRankings, before the sort
TeamScore(roster, lineups, maxValue, pv, pl, mu, league) ==
  LET teamLineup == FindLineup(lineups, roster.roster_id)
      lineupValueScore == JsMul(JsDiv(Num(teamLineup.totalValue), Num(maxValue)), Num(100))
      allPlay == calculateAllPlayRecord(roster.roster_id, mu)
      winPct == IF roster.wins + roster.losses > 0
                THEN Frac(roster.wins, roster.wins + roster.losses) ELSE Num(0)
      performanceScore == JsAdd(JsMul(allPlay.winPct, Num(60)), JsMul(winPct, Num(40)))
      positionalScore == calculatePositionalAdvantage(teamLineup, lineups)
      depthScore == calculateDepthScore(roster.players, pv, teamLineup.starters, pl)
      w == Weights(league)
      powerScore ==
        JsAdd(JsAdd(JsMul(lineupValueScore, Frac(w.lineup, 100)),
                    JsMul(performanceScore, Frac(w.performance, 100))),
              JsAdd(JsMul(positionalScore, Frac(w.positional, 100)),
                    JsMul(depthScore, Frac(w.depth, 100))))
  IN [rosterId |-> roster.roster_id,
      lineupValueScore |-> RoundTenths(lineupValueScore),
      performanceScore |-> RoundTenths(performanceScore),
      positionalScore |-> RoundTenths(positionalScore),
      depthScore |-> RoundTenths(depthScore),
      powerScore |-> RoundTenths(powerScore),
      totalRosterValue |-> teamLineup.totalValue,
      powerRank |-> 0]

\* the parameter weights = null of calculateTeamPowerScore, or a weight set
NullWeights == [isNull |-> TRUE, set |-> <<>>]
GivenWeights(w) == [isNull |-> FALSE, set |-> w]

\* weights || { lineup: 0.50, performance: 0.30, positional: 0.15, depth: 0.05 },
\* in hundredths
DefaultWeights(weights) ==
  IF weights.isNull THEN [lineup |-> 50, performance |-> 30, positional |-> 15, depth |-> 5]
  ELSE weights.set

calculateTeamPowerScore(roster, pv, sl, pl, allLineups, maxValue, performanceScore, weights) ==
  LET w == DefaultWeights(weights)
      lineupData == calculateOptimalLineupValue(roster, pv, sl, pl)
      lineupValueScore == JsMul(JsDiv(Num(lineupData.totalValue), Num(maxValue)), Num(100))
      positionalScore == calculatePositionalAdvantage(lineupData, allLineups)
      depthScore == calculateDepthScore(roster, pv, lineupData.starters, pl)
      powerScore ==
        JsAdd(JsAdd(JsMul(lineupValueScore, Frac(w.lineup, 100)),
                    JsMul(performanceScore, Frac(w.performance, 100))),
              JsAdd(JsMul(positionalScore, Frac(w.positional, 100)),
                    JsMul(depthScore, Frac(w.depth, 100))))
  IN [powerScore |-> RoundTenths(powerScore),
      lineupValueScore |-> RoundTenths(lineupValueScore),
      positionalScore |-> RoundTenths(positionalScore),
      depthScore |-> RoundTenths(depthScore),
      totalRosterValue |-> lineupData.totalValue,
      starters |-> lineupData.starters]

\* powerRankings.sort((a, b) => b.powerScore - a.powerScore): stable, descending
RECURSIVE InsertByPowerScore(_, _)
InsertByPowerScore(e, s) ==
  IF s = <<>> THEN <<e>>
  ELSE IF JsLess(Head(s).powerScore, e.powerScore)
       THEN <<e>> \o s
       ELSE <<Head(s)>> \o InsertByPowerScore(e, Tail(s))

RECURSIVE SortByPowerScore(_)
SortByPowerScore(s) ==
  IF s = <<>> THEN <<>>
  ELSE InsertByPowerScore(s[Len(s)], SortByPowerScore(SubSeq(s, 1, Len(s) - 1)))

\* team.powerRank = index + 1
WithRanks(s) == [i \in 1..Len(s) |-> [s[i] EXCEPT !.powerRank = i]]

\* The sorted and ranked scores.  A NaN power score makes the comparator
\* inconsistent and the order implementation-defined: `order` is the
\* permutation the engine then leaves.
RankedBy(scored, order) ==
  IF \A t \in 1..Len(scored) : scored[t].powerScore.kind = "num"
  THEN WithRanks(SortByPowerScore(scored))
  ELSE WithRanks([i \in 1..Len(scored) |-> scored[order[i]]])

\* teamLineups = rosters.map(roster => ({rosterId, ...lineupData}))
TeamLineups(rs, pv, sl, pl) ==
  [t \in 1..Len(rs) |->
     LET l == calculateOptimalLineupValue(rs[t].players, pv, sl, pl)
     IN [rosterId |-> rs[t].roster_id, totalValue |-> l.totalValue, starters |-> l.starters]]

-----------------------------------------------------------------------------
(* The trade impact of generate-trade-recommendations.js                   *)

\* Math.ceil(direct + flexBonus + sfBonus), flexBonus = FLEX * 0.33 and
\* sfBonus = SUPER_FLEX * 0.25, in hundredths
getRequiredStarters(position, sl) ==
  LET direct == IF position \in DOMAIN sl THEN sl[position] ELSE 0
      flexBonus == IF position \in {"RB", "WR", "TE"} THEN 33 * sl["FLEX"] ELSE 0
      sfBonus == IF position \in {"QB", "RB", "WR", "TE"} THEN 25 * sl["SUPER_FLEX"] ELSE 0
  IN (100 * direct + flexBonus + sfBonus + 99) \div 100

\* team.players of buildTeamData (getTeamRoster builds the same records): the
\* rostered players that have a value entry and a directory entry
TeamPlayers(roster, pv, pl, starterIds) ==
  LET kept == SelectSeq(roster, LAMBDA id : id \in DOMAIN pv /\ pl[id].present)
  IN [i \in 1..Len(kept) |->
        [playerId |-> kept[i], position |-> pl[kept[i]].position,
         value |-> pv[kept[i]].value, isStarter |-> kept[i] \in starterIds]]

NeedPositions == {"QB", "RB", "WR", "TE"}

\* the players, starters and bench fields of analyzeTeamNeeds
analyzeTeamNeeds(teamPlayers, sl) ==
  [pos \in NeedPositions |->
     LET posPlayers == SortByValueDesc(SelectSeq(teamPlayers, LAMBDA q : q.position = pos))
         requiredStarters == getRequiredStarters(pos, sl)
     IN [players |-> posPlayers,
         starters |-> Take(posPlayers, requiredStarters),
         bench |-> SubSeq(posPlayers, Min(requiredStarters, Len(posPlayers)) + 1, Len(posPlayers)),
         requiredStarters |-> requiredStarters]]

\* Mutant of StarterUpgrades: a received player worth as much as the worst
\* starter counts as an upgrade.
RECURSIVE StarterUpgradesOnTies(_, _)
StarterUpgradesOnTies(received, teamNeeds) ==
  IF received = <<>> THEN <<>>
  ELSE LET newPlayer == Head(received)
           rest == StarterUpgradesOnTies(Tail(received), teamNeeds)
       IN IF newPlayer.position \in DOMAIN teamNeeds
             /\ Len(teamNeeds[newPlayer.position].starters) > 0
          THEN LET starters == teamNeeds[newPlayer.position].starters
                   worstStarter == starters[Len(starters)]
               IN IF newPlayer.value >= worstStarter.value
                  THEN <<[newPlayer |-> newPlayer.playerId, replaces |-> worstStarter.playerId,
                          improvement |-> newPlayer.value - worstStarter.value]>> \o rest
                  ELSE rest
          ELSE rest

\* starterUpgrades after the forEach over playersReceived
RECURSIVE StarterUpgrades(_, _)
StarterUpgrades(received, teamNeeds) ==
  IF received = <<>> THEN <<>>
  ELSE LET newPlayer == Head(received)
           rest == StarterUpgrades(Tail(received), teamNeeds)
       IN IF newPlayer.position \in DOMAIN teamNeeds
             /\ Len(teamNeeds[newPlayer.position].starters) > 0
          THEN LET starters == teamNeeds[newPlayer.position].starters
                   worstStarter == starters[Len(starters)]
               IN IF newPlayer.value > worstStarter.value
                  THEN <<[newPlayer |-> newPlayer.playerId, replaces |-> worstStarter.playerId,
                          improvement |-> newPlayer.value - worstStarter.value]>> \o rest
                  ELSE rest
          ELSE rest

RECURSIVE SumImprovement(_)
SumImprovement(upgrades) ==
  IF upgrades = <<>> THEN 0 ELSE Head(upgrades).improvement + SumImprovement(Tail(upgrades))

\* Mutant of StarterLoss: every given player is charged, starter or not.
StarterLossOfAll(given) == Frac(SumValues(given), 2)

\* starterLoss: player.value * 0.5 for every given player with isStarter
StarterLoss(given) == Frac(SumValues(SelectSeq(given, LAMBDA g : g.isStarter)), 2)

\* Math.round(((netLineupImpact / maxLineupValue) * 100 * 0.50) * 10) / 10
EstimatedPowerChange(netLineupImpact, maxValue) ==
  RoundTenths(JsMul(JsMul(JsDiv(netLineupImpact, Num(maxValue)), Num(100)), Frac(50, 100)))

calculateTradeImpact(given, received, maxValue, teamNeeds) ==
  LET starterUpgrades == StarterUpgrades(received, teamNeeds)
      lineupImprovement == SumImprovement(starterUpgrades)
      starterLoss == StarterLoss(given)
      netLineupImpact == JsSub(Num(lineupImprovement), starterLoss)
  IN [valueGiven |-> SumValues(given),
      valueReceived |-> SumValues(received),
      netValue |-> SumValues(received) - SumValues(given),
      lineupImprovement |-> lineupImprovement,
      starterUpgrades |-> starterUpgrades,
      starterLoss |-> starterLoss,
      estimatedPowerChange |-> EstimatedPowerChange(netLineupImpact, maxValue),
      wouldImproveLineup |-> lineupImprovement > 0]

calculateImpact(teamNeeds, given, received, maxValue) ==
  LET starterUpgrades == StarterUpgrades(received, teamNeeds)
      lineupImprovement == SumImprovement(starterUpgrades)
      netLineupImpact == JsSub(Num(lineupImprovement), StarterLoss(given))
  IN [valueGiven |-> SumValues(given),
      valueReceived |-> SumValues(received),
      netValue |-> SumValues(received) - SumValues(given),
      lineupImprovement |-> lineupImprovement,
      starterUpgrades |-> starterUpgrades,
      estimatedPowerChange |-> EstimatedPowerChange(netLineupImpact, maxValue),
      wouldImproveLineup |-> lineupImprovement > 0]

-----------------------------------------------------------------------------
(* Trade generation of generate-trade-recommendations.js: the command-line *)
(* engine (lines 1-838) and the data loader (lines 840-1448)               *)

MIN_VALUE_THRESHOLD == 300

VALUE_TOLERANCE_PERCENT == Frac(30, 100)

\* a <= b (false when either is NaN)
JsLessEq(a, b) == ~IsNaN(a) /\ ~IsNaN(b) /\ ~JsLess(b, a)

\* Mutant of isFairTrade: the difference is divided by the first side's value.
isFairTradeBySide1(side1Value, side2Value, tolerance) ==
  IF side1Value = 0 /\ side2Value = 0 THEN FALSE
  ELSE LET maxValue == Max(side1Value, side2Value)
           minValue == Min(side1Value, side2Value)
           diff == JsDiv(Num(maxValue - minValue), Num(side1Value))
       IN JsLessEq(diff, tolerance)

\* isFairTrade of the command-line engine
isFairTrade(side1Value, side2Value, tolerance) ==
  IF side1Value = 0 /\ side2Value = 0 THEN FALSE
  ELSE LET maxValue == Max(side1Value, side2Value)
           minValue == Min(side1Value, side2Value)
           diff == JsDiv(Num(maxValue - minValue), Num(maxValue))
       IN JsLessEq(diff, tolerance)

\* isFairTrade of the data loader
isFairTradeLoader(v1, v2, tolerance) ==
  IF v1 = 0 /\ v2 = 0 THEN FALSE
  ELSE LET maxV == Max(v1, v2)
           minV == Min(v1, v2)
       IN JsLessEq(JsDiv(Num(maxV - minV), Num(maxV)), tolerance)

RECURSIVE Flatten(_)
Flatten(ss) == IF ss = <<>> THEN <<>> ELSE Head(ss) \o Flatten(Tail(ss))

\* the (outer, inner) pairs a forEach nested in a forEach visits, in order
Pairs(outer, inner) ==
  Flatten([i \in 1..Len(outer) |-> [j \in 1..Len(inner) |-> <<outer[i], inner[j]>>]])

\* the (s[i], s[j]) a `for i` / `for j = i + 1` double loop visits, in order
Combos(s) ==
  Flatten([i \in 1..Len(s) |-> [k \in 1..(Len(s) - i) |-> <<s[i], s[i + k]>>]])

\* positions = ['QB', 'RB', 'WR', 'TE'] and the pairs of a nested forEach over it
TradePositionList == <<"QB", "RB", "WR", "TE">>
PositionPairs == Pairs(TradePositionList, TradePositionList)

\* what allTeams.forEach sums for the league average: every team's players
LeaguePlayers(ts) == Flatten([t \in 1..Len(ts) |-> ts[t].players])

\* needScore of analyzeTeamNeeds before it is rounded
NeedScore(posPlayers, requiredStarters, leaguePlayers, pos) ==
  LET pool == SelectSeq(leaguePlayers, LAMBDA q : q.position = pos)
      leagueAvg == IF Len(pool) > 0 THEN Frac(SumValues(pool), Len(pool)) ELSE Num(1000)
      starterValue == SumValues(Take(posPlayers, requiredStarters))
      starterAvg == IF requiredStarters > 0 THEN Frac(starterValue, requiredStarters)
                    ELSE Num(0)
      leagueStarterAvg == JsMul(leagueAvg, Frac(3, 2))
      strengthRatio == JsSub(JsDiv(starterAvg, leagueStarterAvg), Num(1))
      depthRatio == Frac(Len(posPlayers) - requiredStarters, Max(1, requiredStarters))
  IN JsAdd(JsMul(strengthRatio, Num(70)), JsMul(depthRatio, Num(30)))

\* analyzeTeamNeeds with its needScore, isNeed and isSurplus fields
TeamNeeds(teamPlayers, leaguePlayers, sl) ==
  LET base == analyzeTeamNeeds(teamPlayers, sl)
  IN [pos \in NeedPositions |->
        LET needScore == NeedScore(base[pos].players, base[pos].requiredStarters,
                                   leaguePlayers, pos)
        IN [players |-> base[pos].players,
            starters |-> base[pos].starters,
            bench |-> base[pos].bench,
            requiredStarters |-> base[pos].requiredStarters,
            needScore |-> RoundTenths(needScore),
            isNeed |-> JsLess(needScore, Num(-10)),
            isSurplus |-> JsLess(Num(15), needScore)]]

Trade(gives1, gives2, type) == [team1Gives |-> gives1, team2Gives |-> gives2, type |-> type]

\* .filter(p => p.value >= v)
AtLeast(s, v) == SelectSeq(s, LAMBDA p : p.value >= v)

\* .filter(p => p.value >= 2500 && !p.isStarter)
Stars(s) == SelectSeq(s, LAMBDA p : p.value >= 2500 /\ ~p.isStarter)

\* .filter(p => p.value >= 800 && p.value < 2500 && !p.isStarter)
Depth(s) == SelectSeq(s, LAMBDA p : p.value >= 800 /\ p.value < 2500 /\ ~p.isStarter)

\* Strategy 1 of generateTradeCombinations: complementary needs
Complementary(team1Needs, team2Needs) ==
  Flatten([k \in 1..Len(PositionPairs) |->
    LET pos1 == PositionPairs[k][1]
        pos2 == PositionPairs[k][2]
    IN IF /\ pos1 # pos2
          /\ team1Needs[pos1].isSurplus /\ team2Needs[pos1].isNeed
          /\ team2Needs[pos2].isSurplus /\ team1Needs[pos2].isNeed
       THEN LET fair == SelectSeq(
                          Pairs(AtLeast(team1Needs[pos1].bench, MIN_VALUE_THRESHOLD),
                                AtLeast(team2Needs[pos2].bench, MIN_VALUE_THRESHOLD)),
                          LAMBDA pq : isFairTrade(pq[1].value, pq[2].value,
                                                  VALUE_TOLERANCE_PERCENT))
            IN [i \in 1..Len(fair) |->
                  Trade(<<fair[i][1]>>, <<fair[i][2]>>, "1-for-1 (complementary)")]
       ELSE <<>>])

\* Strategy 2 of generateTradeCombinations: one-sided need fulfilment, then its
\* reverse, for every (needPos, givePos)
NeedFulfilment(team1Needs, team2Needs) ==
  Flatten([k \in 1..Len(PositionPairs) |->
    LET needPos == PositionPairs[k][1]
        givePos == PositionPairs[k][2]
        forward ==
          IF /\ team1Needs[needPos].isNeed
             /\ Len(team2Needs[needPos].bench) > 0
             /\ Len(team1Needs[givePos].bench) > 0
          THEN LET fair == SelectSeq(
                             Pairs(AtLeast(team2Needs[needPos].bench, MIN_VALUE_THRESHOLD),
                                   AtLeast(team1Needs[givePos].bench, MIN_VALUE_THRESHOLD)),
                             LAMBDA qp : isFairTrade(qp[2].value, qp[1].value,
                                                     VALUE_TOLERANCE_PERCENT))
               IN [i \in 1..Len(fair) |->
                     Trade(<<fair[i][2]>>, <<fair[i][1]>>, "1-for-1 (need)")]
          ELSE <<>>
        reverse ==
          IF /\ team2Needs[needPos].isNeed
             /\ Len(team1Needs[needPos].bench) > 0
             /\ Len(team2Needs[givePos].bench) > 0
          THEN LET fair == SelectSeq(
                             Pairs(AtLeast(team1Needs[needPos].bench, MIN_VALUE_THRESHOLD),
                                   AtLeast(team2Needs[givePos].bench, MIN_VALUE_THRESHOLD)),
                             LAMBDA pq : isFairTrade(pq[1].value, pq[2].value,
                                                     VALUE_TOLERANCE_PERCENT))
               IN [i \in 1..Len(fair) |->
                     Trade(<<fair[i][1]>>, <<fair[i][2]>>, "1-for-1 (need)")]
          ELSE <<>>
    IN forward \o reverse])

\* positions.flatMap(pos => needs[pos].bench.filter(p => p.value >= MIN_VALUE_THRESHOLD * 2))
AllBench(needs) ==
  Flatten([k \in 1..Len(TradePositionList) |->
             AtLeast(needs[TradePositionList[k]].bench, MIN_VALUE_THRESHOLD * 2)])

\* Strategy 3 of generateTradeCombinations: value swaps across positions
ValueSwaps(team1Needs, team2Needs) ==
  LET fair == SelectSeq(Pairs(AllBench(team1Needs), AllBench(team2Needs)),
                LAMBDA pq : /\ pq[1].position # pq[2].position
                            /\ isFairTrade(pq[1].value, pq[2].value, Frac(25, 100)))
  IN [i \in 1..Len(fair) |-> Trade(<<fair[i][1]>>, <<fair[i][2]>>, "1-for-1 (value)")]

\* the players of every position of a needs analysis, position after position
AllPlayersOf(needs) ==
  Flatten([k \in 1..Len(TradePositionList) |-> needs[TradePositionList[k]].players])

\* Mutant of Consolidation: the inner loop starts at j = i, so a combo may hold
\* one player twice.
ConsolidationFromSame(team1Needs, team2Needs) ==
  Flatten([k \in 1..Len(TradePositionList) |->
    LET pos == TradePositionList[k]
        CombosFromSame(s) ==
          Flatten([i \in 1..Len(s) |-> [j \in 1..(Len(s) - i + 1) |-> <<s[i], s[i + j - 1]>>]])
        oneForTwo == SelectSeq(Pairs(Stars(team1Needs[pos].players),
                                     CombosFromSame(Depth(AllPlayersOf(team2Needs)))),
                       LAMBDA sc : isFairTrade(sc[1].value, sc[2][1].value + sc[2][2].value,
                                               Frac(35, 100)))
        twoForOne == SelectSeq(Pairs(Stars(team2Needs[pos].players),
                                     CombosFromSame(Depth(AllPlayersOf(team1Needs)))),
                       LAMBDA sc : isFairTrade(sc[1].value, sc[2][1].value + sc[2][2].value,
                                               Frac(35, 100)))
    IN [i \in 1..Len(oneForTwo) |-> Trade(<<oneForTwo[i][1]>>, oneForTwo[i][2], "1-for-2")]
         \o [i \in 1..Len(twoForOne) |-> Trade(twoForOne[i][2], <<twoForOne[i][1]>>, "2-for-1")]])

\* Strategy 4 of generateTradeCombinations: consolidation, for every position
\* the 1-for-2 trades and then the 2-for-1 trades
Consolidation(team1Needs, team2Needs) ==
  Flatten([k \in 1..Len(TradePositionList) |->
    LET pos == TradePositionList[k]
        oneForTwo == SelectSeq(Pairs(Stars(team1Needs[pos].players),
                                     Combos(Depth(AllPlayersOf(team2Needs)))),
                       LAMBDA sc : isFairTrade(sc[1].value, sc[2][1].value + sc[2][2].value,
                                               Frac(35, 100)))
        twoForOne == SelectSeq(Pairs(Stars(team2Needs[pos].players),
                                     Combos(Depth(AllPlayersOf(team1Needs)))),
                       LAMBDA sc : isFairTrade(sc[1].value, sc[2][1].value + sc[2][2].value,
                                               Frac(35, 100)))
    IN [i \in 1..Len(oneForTwo) |-> Trade(<<oneForTwo[i][1]>>, oneForTwo[i][2], "1-for-2")]
         \o [i \in 1..Len(twoForOne) |-> Trade(twoForOne[i][2], <<twoForOne[i][1]>>, "2-for-1")]])

\* ids.sort(): ascending (the model's ids have one digit, so the string order
\* of Array.prototype.sort is the numeric order)
RECURSIVE SortIds(_)
SortIds(ids) ==
  IF ids = <<>> THEN <<>>
  ELSE LET rest == SortIds(SubSeq(ids, 1, Len(ids) - 1))
           id == ids[Len(ids)]
       IN SelectSeq(rest, LAMBDA x : x <= id) \o <<id>> \o SelectSeq(rest, LAMBDA x : x > id)

\* [...team1Gives ids sorted, '|', ...team2Gives ids sorted].join(',')
TradeKey(trade) ==
  <<SortIds([i \in 1..Len(trade.team1Gives) |-> trade.team1Gives[i].playerId]),
    "|",
    SortIds([i \in 1..Len(trade.team2Gives) |-> trade.team2Gives[i].playerId])>>

\* Mutant of RemoveDuplicates: nothing is filtered out.
RemoveDuplicatesKeepAll(trades, seen) == trades

\* trades.filter(trade => { if (seen.has(key)) return false; seen.add(key); return true; })
RECURSIVE RemoveDuplicates(_, _)
RemoveDuplicates(trades, seen) ==
  IF trades = <<>> THEN <<>>
  ELSE IF TradeKey(Head(trades)) \in seen THEN RemoveDuplicates(Tail(trades), seen)
       ELSE <<Head(trades)>> \o RemoveDuplicates(Tail(trades), seen \cup {TradeKey(Head(trades))})

generateTradeCombinations(team1Needs, team2Needs) ==
  RemoveDuplicates(Complementary(team1Needs, team2Needs)
                     \o NeedFulfilment(team1Needs, team2Needs)
                     \o ValueSwaps(team1Needs, team2Needs)
                     \o Consolidation(team1Needs, team2Needs), {})

\* a trade of generateTrades with the two calculateImpact results
WithImpacts(trade, team1Needs, team2Needs, maxValue) ==
  [team1Impact |-> calculateImpact(team1Needs, trade.team1Gives, trade.team2Gives, maxValue),
   team2Impact |-> calculateImpact(team2Needs, trade.team2Gives, trade.team1Gives, maxValue)]
    @@ trade

\* Strategy 1 of generateTrades: value swaps between bench players of
\* different positions
BenchSwaps(team1Needs, team2Needs) ==
  Flatten([k \in 1..Len(PositionPairs) |->
    LET pos1 == PositionPairs[k][1]
        pos2 == PositionPairs[k][2]
    IN IF pos1 = pos2 THEN <<>>
       ELSE LET fair == SelectSeq(
                          Pairs(AtLeast(team1Needs[pos1].bench, MIN_VALUE_THRESHOLD * 2),
                                AtLeast(team2Needs[pos2].bench, MIN_VALUE_THRESHOLD * 2)),
                          LAMBDA pq : isFairTradeLoader(pq[1].value, pq[2].value, Frac(25, 100)))
            IN [i \in 1..Len(fair) |-> Trade(<<fair[i][1]>>, <<fair[i][2]>>, "1-for-1")]])

\* Strategy 2 of generateTrades: the body of positions.forEach(pos => ...),
\* which does not depend on pos and so runs four times alike
StarsForDepth(team1, team2) ==
  LET oneForTwo == SelectSeq(Pairs(Stars(team1.players), Combos(Depth(team2.players))),
                     LAMBDA sc : isFairTradeLoader(sc[1].value,
                                                   sc[2][1].value + sc[2][2].value,
                                                   Frac(35, 100)))
      twoForOne == SelectSeq(Pairs(Stars(team2.players), Combos(Depth(team1.players))),
                     LAMBDA sc : isFairTradeLoader(sc[1].value,
                                                   sc[2][1].value + sc[2][2].value,
                                                   Frac(35, 100)))
  IN [i \in 1..Len(oneForTwo) |-> Trade(<<oneForTwo[i][1]>>, oneForTwo[i][2], "1-for-2")]
       \o [i \in 1..Len(twoForOne) |-> Trade(twoForOne[i][2], <<twoForOne[i][1]>>, "2-for-1")]

\* Mutant of generateTrades: the bench swaps are pushed without the fairness test.
generateTradesUnfiltered(team1, team2, team1Needs, team2Needs, maxValue) ==
  LET swaps == Flatten([k \in 1..Len(PositionPairs) |->
                 LET pos1 == PositionPairs[k][1]
                     pos2 == PositionPairs[k][2]
                     all == Pairs(AtLeast(team1Needs[pos1].bench, MIN_VALUE_THRESHOLD * 2),
                                  AtLeast(team2Needs[pos2].bench, MIN_VALUE_THRESHOLD * 2))
                 IN IF pos1 = pos2 THEN <<>>
                    ELSE [i \in 1..Len(all) |-> Trade(<<all[i][1]>>, <<all[i][2]>>, "1-for-1")]])
      trades == swaps \o Flatten([k \in 1..Len(TradePositionList) |-> StarsForDepth(team1, team2)])
  IN [i \in 1..Len(trades) |-> WithImpacts(trades[i], team1Needs, team2Needs, maxValue)]

generateTrades(team1, team2, team1Needs, team2Needs, maxValue) ==
  LET trades == BenchSwaps(team1Needs, team2Needs)
                  \o Flatten([k \in 1..Len(TradePositionList) |-> StarsForDepth(team1, team2)])
  IN [i \in 1..Len(trades) |-> WithImpacts(trades[i], team1Needs, team2Needs, maxValue)]

\* needs[p.position]?.isSurplus and needs[p.position]?.isNeed
IsSurplusAt(needs, position) == position \in DOMAIN needs /\ needs[position].isSurplus
IsNeedAt(needs, position) == position \in DOMAIN needs /\ needs[position].isNeed

\* what the players one team gives add to positionalFitScore
RECURSIVE PositionalFit(_, _, _)
PositionalFit(gives, giverNeeds, receiverNeeds) ==
  IF gives = <<>> THEN 0
  ELSE (IF IsSurplusAt(giverNeeds, Head(gives).position) THEN 10 ELSE 0)
       + (IF IsNeedAt(receiverNeeds, Head(gives).position) THEN 15 ELSE 0)
       + PositionalFit(Tail(gives), giverNeeds, receiverNeeds)

\* Mutant of TradeScore: fairExchange tests the difference of the two net
\* values instead of their sum.
TradeScoreByDifference(t1, t2, positionalFitScore) ==
  LET bothImprove == t1.wouldImproveLineup /\ t2.wouldImproveLineup
      bothHaveUpgrades == Len(t1.starterUpgrades) > 0 /\ Len(t2.starterUpgrades) > 0
      fairExchange == Abs(t1.netValue - t2.netValue) < 800
      lineupBonus == (IF t1.wouldImproveLineup THEN 25 ELSE 0)
                       + (IF t2.wouldImproveLineup THEN 25 ELSE 0)
      upgradeBonus == (Len(t1.starterUpgrades) + Len(t2.starterUpgrades)) * 20
      bonuses == positionalFitScore + lineupBonus + upgradeBonus
                   + (IF bothImprove THEN 40 ELSE 0)
                   + (IF bothHaveUpgrades THEN 50 ELSE 0)
                   + (IF fairExchange THEN 20 ELSE 0)
  IN [bothImprove |-> bothImprove,
      bothHaveUpgrades |-> bothHaveUpgrades,
      fairExchange |-> fairExchange,
      score |-> RoundTenths(
                  JsAdd(JsMul(JsAdd(t1.estimatedPowerChange, t2.estimatedPowerChange), Num(10)),
                        Num(bonuses)))]

\* the score both programs compute from the two impacts, before it is rounded
TradeScore(t1, t2, positionalFitScore) ==
  LET bothImprove == t1.wouldImproveLineup /\ t2.wouldImproveLineup
      bothHaveUpgrades == Len(t1.starterUpgrades) > 0 /\ Len(t2.starterUpgrades) > 0
      fairExchange == Abs(t1.netValue + t2.netValue) < 800
      lineupBonus == (IF t1.wouldImproveLineup THEN 25 ELSE 0)
                       + (IF t2.wouldImproveLineup THEN 25 ELSE 0)
      upgradeBonus == (Len(t1.starterUpgrades) + Len(t2.starterUpgrades)) * 20
      bonuses == positionalFitScore + lineupBonus + upgradeBonus
                   + (IF bothImprove THEN 40 ELSE 0)
                   + (IF bothHaveUpgrades THEN 50 ELSE 0)
                   + (IF fairExchange THEN 20 ELSE 0)
  IN [bothImprove |-> bothImprove,
      bothHaveUpgrades |-> bothHaveUpgrades,
      fairExchange |-> fairExchange,
      score |-> RoundTenths(
                  JsAdd(JsMul(JsAdd(t1.estimatedPowerChange, t2.estimatedPowerChange), Num(10)),
                        Num(bonuses)))]

\* scoreTrade of the data loader
scoreTrade(trade, team1Needs, team2Needs) ==
  TradeScore(trade.team1Impact, trade.team2Impact,
             PositionalFit(trade.team1Gives, team1Needs, team2Needs)
               + PositionalFit(trade.team2Gives, team2Needs, team1Needs))
    @@ trade

\* scoreTradeRecommendation of the command-line engine
scoreTradeRecommendation(trade, team1Needs, team2Needs, maxValue) ==
  LET t1 == calculateTradeImpact(trade.team1Gives, trade.team2Gives, maxValue, team1Needs)
      t2 == calculateTradeImpact(trade.team2Gives, trade.team1Gives, maxValue, team2Needs)
  IN TradeScore(t1, t2,
                PositionalFit(trade.team1Gives, team1Needs, team2Needs)
                  + PositionalFit(trade.team2Gives, team2Needs, team1Needs))
       @@ [team1Impact |-> t1, team2Impact |-> t2]
       @@ trade

\* score > 0 (false for NaN)
PositiveScore(t) == JsLess(Num(0), t.score)

\* .sort((a, b) => b.score - a.score): stable, descending
RECURSIVE InsertByScore(_, _)
InsertByScore(e, s) ==
  IF s = <<>> THEN <<e>>
  ELSE IF JsLess(Head(s).score, e.score)
       THEN <<e>> \o s
       ELSE <<Head(s)>> \o InsertByScore(e, Tail(s))

RECURSIVE SortByScore(_)
SortByScore(s) ==
  IF s = <<>> THEN <<>>
  ELSE InsertByScore(s[Len(s)], SortByScore(SubSeq(s, 1, Len(s) - 1)))

\* the comparator of findMutuallyBeneficialTrades returns a negative number:
\* a.bothImprove && !b.bothImprove, or equal flags and b.score - a.score < 0
WinWinBefore(a, b) ==
  \/ a.bothImprove /\ ~b.bothImprove
  \/ a.bothImprove = b.bothImprove /\ JsLess(b.score, a.score)

RECURSIVE InsertWinWinFirst(_, _)
InsertWinWinFirst(e, s) ==
  IF s = <<>> THEN <<e>>
  ELSE IF WinWinBefore(e, Head(s))
       THEN <<e>> \o s
       ELSE <<Head(s)>> \o InsertWinWinFirst(e, Tail(s))

RECURSIVE SortWinWinFirst(_)
SortWinWinFirst(s) ==
  IF s = <<>> THEN <<>>
  ELSE InsertWinWinFirst(s[Len(s)], SortWinWinFirst(SubSeq(s, 1, Len(s) - 1)))

\* the team ids both programs attach to a recommendation
WithTeams(t, team1, team2) ==
  [team1Id |-> team1.rosterId, team2Id |-> team2.rosterId] @@ t

\* the trades generateTradeCombinations returns for two teams, with the teams
PotentialTrades(team1, team2, team1Needs, team2Needs) ==
  LET trades == generateTradeCombinations(team1Needs, team2Needs)
  IN [n \in 1..Len(trades) |-> WithTeams(trades[n], team1, team2)]

\* findMutuallyBeneficialTrades after generateTradeCombinations: the scores,
\* the filter on a positive score, the sort and slice(0, 10)
RankPair(potential, team1Needs, team2Needs, maxValue) ==
  LET scoredTrades == [i \in 1..Len(potential) |->
                         scoreTradeRecommendation(potential[i], team1Needs, team2Needs,
                                                  maxValue)]
  IN Take(SortWinWinFirst(SelectSeq(scoredTrades, PositiveScore)), 10)

\* findMutuallyBeneficialTrades(team1, team2, ...).recommendations
findMutuallyBeneficialTrades(team1, team2, team1Needs, team2Needs, maxValue) ==
  RankPair(PotentialTrades(team1, team2, team1Needs, team2Needs),
           team1Needs, team2Needs, maxValue)

\* the pairs (i, j), i < j, in the order of the two nested for loops
TeamPairs(n) == Combos([i \in 1..n |-> i])

\* a scan that breaks off at the first pair without a recommendation
RECURSIVE UntilEmpty(_)
UntilEmpty(ss) ==
  IF ss = <<>> \/ Head(ss) = <<>> THEN <<>> ELSE <<Head(ss)>> \o UntilEmpty(Tail(ss))

LeagueScanStopping(pairLists) == SortByScore(Flatten(UntilEmpty(pairLists)))

\* allRecommendations of main: the per-pair lists pushed one after the other,
\* then sorted by score
LeagueScan(pairLists) == SortByScore(Flatten(pairLists))

\* the trades generateTrades returns for the pairs visited in `order`, with
\* the teams
EmittedTrades(ts, needs, maxValue, order) ==
  Flatten([k \in 1..Len(order) |->
    LET i == order[k][1]
        j == order[k][2]
        trades == generateTrades(ts[i], ts[j], needs[i], needs[j], maxValue)
    IN [n \in 1..Len(trades) |-> WithTeams(trades[n], ts[i], ts[j])]])

\* generateRecommendations after generateTrades: the scores (teamNeeds is keyed
\* by rosterId), the filter on a positive score, the sort by score, the
\* removal of duplicates and unique.slice(0, 100)
RankEmitted(trades, needs) ==
  LET scored == [n \in 1..Len(trades) |->
                   scoreTrade(trades[n], needs[trades[n].team1Id], needs[trades[n].team2Id])]
  IN Take(RemoveDuplicates(SortByScore(SelectSeq(scored, PositiveScore)), {}), 100)

\* recommendations of generateRecommendations, the pairs visited in `order`
generateRecommendations(ts, needs, maxValue, order) ==
  RankEmitted(EmittedTrades(ts, needs, maxValue, order), needs)

\* teams of generateRecommendations: buildTeamData of every roster
BuildTeams(rs, pv, sl, pl) ==
  [t \in 1..Len(rs) |->
     LET lineupData == calculateOptimalLineup(rs[t].players, pv, sl, pl)
     IN [rosterId |-> rs[t].roster_id,
         players |-> TeamPlayers(rs[t].players, pv, pl, lineupData.starterIds),
         starters |-> lineupData.starters]]

\* Math.max(...teams.map(t => t.starters.reduce((sum, s) => sum + s.value, 0)))
MaxStarterTotal(ts) ==
  CHOOSE m \in {SumValues(ts[t].starters) : t \in 1..Len(ts)} :
    \A t \in 1..Len(ts) : SumValues(ts[t].starters) <= m

-----------------------------------------------------------------------------
(* Specification SpecLineup: the optimizer applied to bounded rosters      *)

Present(pos) == [present |-> TRUE, first_name |-> TRUE, position |-> pos]
Missing == [present |-> FALSE, first_name |-> FALSE, position |-> "none"]

ValueEntry(v) == [value |-> v, valueSource |-> "none"]

\* Resolved values reach the optimizer as any integer: the resolver can emit a
\* negative value (calculateEnhancedRedraftValues on negative fantasy points).
LineupValues == {-1, 0, 1}

RosterIds(n) == [i \in 1..n |-> i]

PositionIndex(pos) == CHOOSE i \in 1..Len(POSITIONS) : POSITIONS[i] = pos

\* The optimizer groups the roster by position before it compares anything, so
\* the roster order of two players of different positions never reaches its
\* result; the bounded rosters list their players position by position.  The
\* order within a position (which decides ties) is unrestricted.
Directories(n) ==
  {pl \in [1..n -> {Present(p) : p \in PositionSet}] :
     \A i \in 1..n : \A j \in 1..n :
       i < j => PositionIndex(pl[i].position) <= PositionIndex(pl[j].position)}

\* The bounded slot configurations: every class has no slot or one, and the
\* league starts at most two players (the scenario below has capacities of 2).
SlotConfigs ==
  {sl \in [SlotClasses -> 0..1] :
     sl["QB"] + sl["RB"] + sl["WR"] + sl["TE"] + sl["K"] + sl["DEF"]
       + sl["FLEX"] + sl["SUPER_FLEX"] <= 2}

\* The concrete scenario of the specification's section 8: a 1-QB league and a
\* seven-player roster.
ScenarioSlots ==
  [c \in SlotClasses |->
     CASE c \in {"RB", "WR"} -> 2
       [] c = "SUPER_FLEX" -> 0
       [] OTHER -> 1]

ScenarioPositions == <<"RB", "RB", "WR", "WR", "WR", "TE", "QB">>
ScenarioValues == <<5000, 1200, 4000, 2000, 800, 1000, 3000>>

NoLineup == [totalValue |-> 0, starters |-> <<>>]
NoTradeLineup == [starters |-> <<>>, starterIds |-> {}]

ScarcityIdle ==
  /\ fallbackTables = ModuleTables
  /\ fantasyCalcData = NullFeed
  /\ numTeams = 0
  /\ scarcityMultipliers = STATIC_SCARCITY_FALLBACK

FeedsIdle ==
  /\ leagueType = "dynasty"
  /\ sleeperProjections = <<>>
  /\ matchups = <<>>
  /\ dpLookup = <<>>

PowerIdle ==
  /\ rosters = <<>>
  /\ teamLineups = <<>>
  /\ maxLineupValue = 0
  /\ powerRankings = <<>>

NoImpact == [estimatedPowerChange |-> Num(0), wouldImproveLineup |-> FALSE]

TradeIdle ==
  /\ playersGiven = <<>>
  /\ playersReceived = <<>>
  /\ team1Impact = NoImpact
  /\ impact1 = NoImpact

PipelineIdle ==
  /\ now = 0
  /\ engineOrder = <<>>
  /\ powerOutputs = <<>>
  /\ tradeOutputs = <<>>

RecommendIdle ==
  /\ pairOrder = <<>>
  /\ allTeams = <<>>
  /\ needsByTeam = <<>>
  /\ emitted = <<>>
  /\ recommendations = <<>>
  /\ potentialTrades = <<>>
  /\ pairRecommendations = <<>>
  /\ leagueRecommendations = <<>>

NoFairness == [engine |-> <<FALSE, FALSE>>, loader |-> <<FALSE, FALSE>>]

FairIdle ==
  /\ side1 = 0
  /\ side2 = 0
  /\ fairTolerance = VALUE_TOLERANCE_PERCENT
  /\ fairness = NoFairness

DepthIdle == depthResult = Num(0)

NoSnapshot == [present |-> FALSE]
NoChoice == [source |-> "none"]

SnapshotIdle ==
  /\ vorSnapshots = [snapshots |-> <<>>, currentSnapshot |-> NoSnapshot]
  /\ historicalTrade = [season |-> 0, week |-> 0, isSF |-> FALSE]
  /\ snapshotChoice = [loader |-> NoChoice, analyzer |-> NoChoice]

SummaryIdle ==
  /\ weeklyMatchups = <<>>
  /\ summaryFiles = <<>>
  /\ summaryRun = [specificWeek |-> 0, number |-> 0, latestComplete |-> FALSE]
  /\ allWeeksToProcess = <<>>

InitLineup ==
  /\ ScarcityIdle
  /\ FeedsIdle
  /\ PowerIdle
  /\ TradeIdle
  /\ PipelineIdle
  /\ RecommendIdle
  /\ FairIdle
  /\ DepthIdle
  /\ SnapshotIdle
  /\ SummaryIdle
  /\ pc = "loaded"
  /\ lineup = NoLineup
  /\ tradeLineup = NoTradeLineup
  /\ \/ /\ slots \in SlotConfigs
        /\ \E n \in 0..MaxRoster :
             /\ rosterPlayerIds = RosterIds(n)
             /\ players \in Directories(n)
             /\ playerValues \in [1..n -> {ValueEntry(v) : v \in LineupValues}]
     \/ /\ slots = ScenarioSlots
        /\ rosterPlayerIds = RosterIds(7)
        /\ players = [i \in 1..7 |-> Present(ScenarioPositions[i])]
        /\ playerValues = [i \in 1..7 |-> ValueEntry(ScenarioValues[i])]

\* power-rankings.json.js, calculatePowerRankings: teamLineups = rosters.map(...)
OptimizeLineupValue ==
  /\ pc = "loaded"
  /\ lineup' = calculateOptimalLineupValue(rosterPlayerIds, playerValues, slots, players)
  /\ pc' = "ranked"
  /\ UNCHANGED <<slots, players, playerValues, rosterPlayerIds, tradeLineup, notLineup>>

\* generate-trade-recommendations.js, buildTeamData: lineup = calculateOptimalLineup(...)
OptimizeTradeLineup ==
  /\ pc = "ranked"
  /\ tradeLineup' = calculateOptimalLineup(rosterPlayerIds, playerValues, slots, players)
  /\ pc' = "built"
  /\ UNCHANGED <<slots, players, playerValues, rosterPlayerIds, lineup, notLineup>>

NextLineup == OptimizeLineupValue \/ OptimizeTradeLineup

SpecLineup == InitLineup /\ [][NextLineup]_vars

-----------------------------------------------------------------------------
(* Claims about the lineup optimizer                                       *)

SlotCount(starters, c) == Cardinality({i \in 1..Len(starters) : starters[i].slot = c})

LegalLineup(starters, sl) ==
  /\ \A c \in SlotClasses : SlotCount(starters, c) <= sl[c]
  /\ \A i \in 1..Len(starters) : \A j \in 1..Len(starters) :
       i # j => starters[i].playerId # starters[j].playerId

\* C1: for every duplicate-free roster and every slot configuration, neither
\* optimizer holds more starters in a slot class than the class's configured
\* count, and neither starts the same player in two slots.
C1_LineupLegal ==
  /\ pc \in {"ranked", "built"} => LegalLineup(lineup.starters, slots)
  /\ pc = "built" =>
       /\ LegalLineup(tradeLineup.starters, slots)
       /\ tradeLineup.starterIds = UsedIds(tradeLineup.starters)

\* C1 witness: a position holds more players than its slot takes, and the
\* surplus player starts in a flexible slot next to the required one.
C1_Witness ==
  /\ pc = "built"
  /\ slots["RB"] = 1 /\ slots["FLEX"] = 1
  /\ Len(ByPosition(rosterPlayerIds, playerValues, players, "RB")) = 3
  /\ SlotCount(lineup.starters, "RB") = 1
  /\ SlotCount(tradeLineup.starters, "FLEX") = 1

\* The slot classes a position may fill.
Eligible(c) ==
  CASE c = "FLEX" -> {"RB", "WR", "TE"}
    [] c = "SUPER_FLEX" -> {"QB", "RB", "WR", "TE"}
    [] OTHER -> {c}

InsertAt(s, i, e) == SubSeq(s, 1, i) \o <<e>> \o SubSeq(s, i + 1, Len(s))

\* Every order in which a single pass can visit the eight slot classes, up to
\* the order of the six position classes among themselves (their eligible
\* players are disjoint, so that order changes nothing).
PassOrders ==
  {InsertAt(InsertAt(POSITIONS, i, "FLEX"), j, "SUPER_FLEX") : i \in 0..6, j \in 0..7}

\* Total of the single-pass greedy assignment that visits the classes in
\* `order`, giving each class its highest-valued unused eligible players.
RECURSIVE GreedyTotal(_, _)
GreedyTotal(order, used) ==
  IF order = <<>> THEN 0
  ELSE LET c == Head(order)
           mine == SelectSeq(rosterPlayerIds,
                     LAMBDA id : /\ players[id].present
                                 /\ players[id].position \in Eligible(c)
                                 /\ id \notin used)
           pool == SortByValueDesc([i \in 1..Len(mine) |->
                     [playerId |-> mine[i], value |-> ValueOrZero(playerValues, mine[i])]])
           chosen == Take(pool, slots[c])
       IN SumValues(chosen) + GreedyTotal(Tail(order), used \cup UsedIds(chosen))

\* C2: the optimizer's total is at least the total of every other single-pass
\* greedy assignment under the same capacities and eligibility.
C2_GreedyDominates ==
  pc \in {"ranked", "built"} =>
    \A order \in PassOrders : lineup.totalValue >= GreedyTotal(order, {})

\* The highest total of a legal assignment of the players `ids` to slots with
\* the remaining capacities `cap`: each player is left out or put in one slot
\* class that still has room and takes its position.
RECURSIVE BestTotal(_, _)
BestTotal(ids, cap) ==
  IF ids = <<>> THEN 0
  ELSE LET id == Head(ids)
           open == {c \in SlotClasses : /\ cap[c] > 0
                                         /\ players[id].present
                                         /\ players[id].position \in Eligible(c)}
           totals == {BestTotal(Tail(ids), cap)}
                       \cup {ValueOrZero(playerValues, id)
                               + BestTotal(Tail(ids), [cap EXCEPT ![c] = @ - 1]) : c \in open}
       IN CHOOSE m \in totals : \A t \in totals : t <= m

NonNegativeValues ==
  \A i \in 1..Len(rosterPlayerIds) : ValueOrZero(playerValues, rosterPlayerIds[i]) >= 0

\* C29: on a roster without negative values the total of the optimizer's
\* lineup is the maximum total over all legal assignments of players to slots.
C29_GreedyOptimal ==
  NonNegativeValues =>
    /\ pc \in {"ranked", "built"} => lineup.totalValue = BestTotal(rosterPlayerIds, slots)
    /\ pc = "built" => SumValues(tradeLineup.starters) = BestTotal(rosterPlayerIds, slots)

\* C29 witness: a roster without negative values whose lineup fills a FLEX
\* and a SUPER_FLEX slot with players worth more than 0, and a roster of which
\* a player worth more than 0 stays on the bench.
C29_Witness ==
  /\ pc = "built"
  /\ NonNegativeValues
  /\ \/ /\ \E i \in 1..Len(lineup.starters) :
              lineup.starters[i].slot = "FLEX" /\ lineup.starters[i].value > 0
        /\ \E i \in 1..Len(lineup.starters) :
              lineup.starters[i].slot = "SUPER_FLEX" /\ lineup.starters[i].value > 0
        /\ lineup.totalValue = 2
     \/ /\ lineup.totalValue = 17000
        /\ Len(lineup.starters) = Len(rosterPlayerIds)

IsScenario ==
  /\ slots = ScenarioSlots
  /\ rosterPlayerIds = RosterIds(7)
  /\ players = [i \in 1..7 |-> Present(ScenarioPositions[i])]
  /\ playerValues = [i \in 1..7 |-> ValueEntry(ScenarioValues[i])]

Starter(id, v, slot) == [playerId |-> id, value |-> v, slot |-> slot]

\* C3: in the 1-QB scenario the optimizer starts QB(3000), RB(5000), RB(1200),
\* WR(4000), WR(2000), TE(1000), FLEX = the WR valued 800, leaves K and DEF
\* empty, and totals 17000.
C3_Scenario ==
  (IsScenario /\ pc \in {"ranked", "built"}) =>
     /\ SeqToSet(lineup.starters) =
          {Starter(7, 3000, "QB"), Starter(1, 5000, "RB"), Starter(2, 1200, "RB"),
           Starter(3, 4000, "WR"), Starter(4, 2000, "WR"), Starter(6, 1000, "TE"),
           Starter(5, 800, "FLEX")}
     /\ Len(lineup.starters) = 7
     /\ SlotCount(lineup.starters, "K") = 0
     /\ SlotCount(lineup.starters, "DEF") = 0
     /\ lineup.totalValue = 17000

\* C3 witness: the scenario has been optimised.
C3_Witness == IsScenario /\ pc = "ranked" /\ Len(lineup.starters) = 7

-----------------------------------------------------------------------------
(* Specification SpecScarcity: calculateDynamicScarcity on bounded feeds   *)

\* (redraftValue, value) pairs of a feed entry; 0 stands for a missing or zero
\* field, which `||` treats alike.
FeedWorths == {<<0, 0>>, <<0, 500>>, <<200, 500>>}
FeedRanks == {0, 1}
FeedPositions == <<"QB", "WR">>

FeedEntries ==
  {[sleeperId |-> 0, position |-> p, positionRank |-> r,
    redraftValue |-> w[1], value |-> w[2]] :
     p \in SeqToSet(FeedPositions), r \in FeedRanks, w \in FeedWorths}

\* Feeds of up to MaxFeed entries, listed position by position (entries of
\* different positions are never compared with each other).
Feeds ==
  UNION {{f \in [1..n -> FeedEntries] :
            \A i \in 1..n : \A j \in 1..n :
              i < j => PositionIndex(f[i].position) <= PositionIndex(f[j].position)}
         : n \in 0..MaxFeed}

ScarcitySlots ==
  {[c \in SlotClasses |->
      CASE c = "QB" -> q [] c = "WR" -> w [] c = "SUPER_FLEX" -> x [] OTHER -> 1]
     : q \in 0..2, w \in 0..1, x \in 0..1}

ScarcityTeams == {2, 4}

LineupIdle ==
  /\ players = <<>>
  /\ playerValues = <<>>
  /\ rosterPlayerIds = <<>>
  /\ lineup = NoLineup
  /\ tradeLineup = NoTradeLineup

InitScarcity ==
  /\ pc = "loaded"
  /\ LineupIdle
  /\ FeedsIdle
  /\ PowerIdle
  /\ TradeIdle
  /\ PipelineIdle
  /\ RecommendIdle
  /\ FairIdle
  /\ DepthIdle
  /\ SnapshotIdle
  /\ SummaryIdle
  /\ fallbackTables = ModuleTables
  /\ fantasyCalcData \in {ArrayFeed(f) : f \in Feeds} \cup {NullFeed}
  /\ slots \in ScarcitySlots
  /\ numTeams \in ScarcityTeams
  /\ scarcityMultipliers = STATIC_SCARCITY_FALLBACK

\* calculatePowerRankings: scarcityMultipliers = calculateDynamicScarcity(...)
CalculateScarcity ==
  /\ pc = "loaded"
  /\ scarcityMultipliers' =
       calculateDynamicScarcity(fantasyCalcData, slots, numTeams,
                                isSuperflexLeague(slots), fallbackTables)
  /\ pc' = "scarcity"
  /\ UNCHANGED <<slots, fallbackTables, fantasyCalcData, numTeams, notScarcity>>

NextScarcity == CalculateScarcity

SpecScarcity == InitScarcity /\ [][NextScarcity]_vars

\* C4: the scarcity map has WR exactly 100 and every other position in
\* [20, 200], for every feed, slot configuration and team count.
C4_ScarcityNormalized ==
  pc = "scarcity" =>
    /\ scarcityMultipliers["WR"] = 100
    /\ \A pos \in PositionSet \ {"WR"} :
         scarcityMultipliers[pos] >= 20 /\ scarcityMultipliers[pos] <= 200

\* The static fallback constant of a position: the superflex table's value for
\* QB in a superflex league, the 1-QB table's value otherwise.
FallbackConstant(pos) ==
  IF isSuperflexLeague(slots) /\ pos = "QB" THEN 140
  ELSE CASE pos = "QB" -> 80 [] pos = "RB" -> 150 [] pos = "WR" -> 100
         [] pos = "TE" -> 120 [] pos = "K" -> 20 [] pos = "DEF" -> 25

Unranked(pos) == PosPlayers(fantasyCalcData.entries, pos) = <<>>

\* C11: when the feed is non-empty but holds no player at a position, the
\* multiplier returned for that position is its static fallback constant.
C11_FallbackPerPosition ==
  (pc = "scarcity" /\ ~NoFeed(fantasyCalcData)) =>
     \A pos \in PositionSet : Unranked(pos) => scarcityMultipliers[pos] = FallbackConstant(pos)

\* C12: with no feed (null, not an array, or empty) the result is exactly
\* {QB:80, RB:150, WR:100, TE:120, K:20, DEF:25} in a 1-QB league and
\* {QB:140, RB:150, WR:100, TE:120, K:20, DEF:25} in a superflex league, and
\* the module-level fallback tables are what they were.
C12_NoFeedFallback ==
  (pc = "scarcity" /\ NoFeed(fantasyCalcData)) =>
     /\ scarcityMultipliers =
          [pos \in PositionSet |->
             CASE pos = "QB" -> IF isSuperflexLeague(slots) THEN 140 ELSE 80
               [] pos = "RB" -> 150 [] pos = "WR" -> 100 [] pos = "TE" -> 120
               [] pos = "K" -> 20 [] pos = "DEF" -> 25]
     /\ fallbackTables.static["QB"] = 80 /\ fallbackTables.sf["QB"] = 140
     /\ fallbackTables = ModuleTables

\* C12 witness: an empty array feed in a superflex league came back as the
\* superflex table.
C12_Witness ==
  /\ pc = "scarcity"
  /\ fantasyCalcData = ArrayFeed(<<>>)
  /\ isSuperflexLeague(slots)
  /\ scarcityMultipliers["QB"] = 140 /\ scarcityMultipliers["DEF"] = 25

-----------------------------------------------------------------------------
(* Specification SpecValues: the value resolvers on bounded feeds          *)

PlayerIds == 1..MaxPlayers

\* A directory entry that lacks first_name (the resolvers skip it)
Nameless(pos) == [present |-> TRUE, first_name |-> FALSE, position |-> pos]

\* "LB" stands for a position outside the six the multipliers are keyed by
DirectoryEntries ==
  {Present(pos) : pos \in {"QB", "K", "DEF", "LB"}} \cup {Nameless("QB"), Missing}

\* What the market feed holds for one player: nothing, or an entry with these
\* (redraftValue, value) worths
FcOptions == {<<>>, <<0, 0>>, <<0, 500>>}

RECURSIVE FeedOf(_, _, _)
FeedOf(options, pl, id) ==
  IF id > MaxPlayers THEN <<>>
  ELSE (IF options[id] = <<>> THEN <<>>
        ELSE <<[sleeperId |-> id, position |-> pl[id].position, positionRank |-> 0,
                redraftValue |-> options[id][1], value |-> options[id][2]]>>)
       \o FeedOf(options, pl, id + 1)

RosTenthsOptions == {0, 8}

GameOptions == {Unscored, Scored(-3, FALSE), Scored(4, TRUE)}

Weeks ==
  UNION {[1..n -> {[lines |-> l, scores |-> <<>>] : l \in [PlayerIds -> GameOptions]}]
         : n \in 0..MaxWeeks}

DpOptions == {NoDpMatch, DpMatch(0), DpMatch(3000)}

\* every position class has one slot except SUPER_FLEX
ValueSlots == [c \in SlotClasses |-> IF c = "SUPER_FLEX" THEN 0 ELSE 1]

InitValues ==
  /\ pc = "fetched"
  /\ PowerIdle
  /\ TradeIdle
  /\ PipelineIdle
  /\ RecommendIdle
  /\ FairIdle
  /\ DepthIdle
  /\ SnapshotIdle
  /\ SummaryIdle
  /\ slots = ValueSlots
  /\ numTeams = 2
  /\ fallbackTables = ModuleTables
  /\ scarcityMultipliers = STATIC_SCARCITY_FALLBACK
  /\ playerValues = <<>>
  /\ lineup = NoLineup
  /\ tradeLineup = NoTradeLineup
  /\ rosterPlayerIds = RosterIds(MaxPlayers)
  /\ players \in [PlayerIds -> DirectoryEntries]
  /\ \/ /\ leagueType = "dynasty"
        /\ dpLookup \in [PlayerIds -> DpOptions]
        /\ fantasyCalcData = NullFeed
        /\ sleeperProjections = <<>>
        /\ matchups = <<>>
     \/ /\ leagueType = "redraft"
        /\ dpLookup = [id \in PlayerIds |-> NoDpMatch]
        /\ \E options \in [PlayerIds -> FcOptions] :
             fantasyCalcData = IF \A id \in PlayerIds : options[id] = <<>>
                               THEN NullFeed
                               ELSE ArrayFeed(FeedOf(options, players, 1))
        /\ sleeperProjections \in [PlayerIds -> RosTenthsOptions]
        /\ matchups \in Weeks

\* calculatePowerRankings, dynasty branch: playerValues = matchPlayerValues(...)
ResolveDynasty ==
  /\ pc = "fetched"
  /\ leagueType = "dynasty"
  /\ playerValues' = matchPlayerValues(players, dpLookup)
  /\ pc' = "loaded"
  /\ UNCHANGED <<slots, players, rosterPlayerIds, lineup, tradeLineup, scarcityVars, feedVars,
                 notValues>>

\* calculatePowerRankings, redraft branch: the dynamic scarcity map, then
\* playerValues = calculateEnhancedRedraftValues(...)
ResolveEnhanced ==
  /\ pc = "fetched"
  /\ leagueType = "redraft"
  /\ LET multipliers == calculateDynamicScarcity(fantasyCalcData, slots, numTeams,
                                                 isSuperflexLeague(slots), fallbackTables)
     IN /\ scarcityMultipliers' = multipliers
        /\ playerValues' = calculateEnhancedRedraftValues(players, matchups, fantasyCalcData,
                                                          sleeperProjections, multipliers)
  /\ pc' = "loaded"
  /\ UNCHANGED <<slots, players, rosterPlayerIds, lineup, tradeLineup,
                 fallbackTables, fantasyCalcData, numTeams, feedVars, notValues>>

\* calculateRedraftValues with its default scarcityMultipliers = null
ResolvePpg ==
  /\ pc = "fetched"
  /\ leagueType = "redraft"
  /\ playerValues' = calculateRedraftValues(players, matchups, isSuperflexLeague(slots),
                                            NullScarcity, fallbackTables)
  /\ pc' = "loaded"
  /\ UNCHANGED <<slots, players, rosterPlayerIds, lineup, tradeLineup, scarcityVars, feedVars,
                 notValues>>

NextValues == ResolveDynasty \/ ResolveEnhanced \/ ResolvePpg \/ OptimizeLineupValue

SpecValues == InitValues /\ [][NextValues]_vars

\* The player is in no valuation feed: no market entry, no positive projection,
\* no scored game, no DynastyProcess row.
AbsentFromFeeds(id) ==
  /\ ~FcLookup(fantasyCalcData, id).found
  /\ RosTenths(sleeperProjections, id) = 0
  /\ PlayerStats(matchups, id).games = 0
  /\ ~dpLookup[id].matched

\* C9: the resolver leaves a value entry for every player id on the roster,
\* and a rostered player that is in no valuation feed has the floor value of
\* its position (K 50, DEF 100, any other position 200).
C9_ResolverTotal ==
  pc \in {"loaded", "ranked"} =>
    \A i \in 1..Len(rosterPlayerIds) :
      LET id == rosterPlayerIds[i]
      IN /\ id \in DOMAIN playerValues
         /\ AbsentFromFeeds(id) =>
              playerValues[id].value =
                PositionFloor(IF players[id].present THEN players[id].position ELSE "none")

\* C10: every resolved player value is non-negative.
C10_ValuesNonNegative ==
  pc \in {"loaded", "ranked"} =>
    \A id \in DOMAIN playerValues : playerValues[id].value >= 0

SourceNames == {"fantasycalc", "projection", "ppg"}

\* The tier whose value a player ends up with under the resolution order
\* (market value, alone or blended with a projection; projection alone;
\* points per game times scarcity; position floor): the first that gives a
\* value other than 0.
Tier(id, multipliers) ==
  LET fcData == FcLookup(fantasyCalcData, id)
      worth == IF fcData.redraftValue # 0 THEN fcData.redraftValue ELSE fcData.value
      ros == RosTenths(sleeperProjections, id)
      market == IF ros > 0 THEN RoundDiv(7 * worth + 15 * ros, 10) ELSE worth
      stats == PlayerStats(matchups, id)
  IN IF fcData.found /\ market # 0 THEN "fantasycalc"
     ELSE IF ~fcData.found /\ ros > 0 THEN "projection"
     ELSE IF stats.games > 0
             /\ PpgValue(stats, MultiplierOr50(multipliers, players[id].position)) # 0
          THEN "ppg"
     ELSE "floor"

\* C19: the valueSource the enhanced resolver records for a player names the
\* tier its value comes from: 'fantasycalc', 'projection' or 'ppg' exactly for
\* that tier, and none of the three when the position floor is used.
C19_SourceNamesTier ==
  [][ResolveEnhanced =>
       \A id \in DOMAIN playerValues' :
         IF Tier(id, scarcityMultipliers') = "floor"
         THEN playerValues'[id].valueSource \notin SourceNames
         ELSE playerValues'[id].valueSource = Tier(id, scarcityMultipliers')]_vars

-----------------------------------------------------------------------------
(* Specification SpecPower: the power scores of bounded leagues            *)

\* Team t owns the ids (t - 1) * MaxTeamPlayers + 1 .. + sizes[t]
TeamIds(t, size) == [k \in 1..size |-> (t - 1) * MaxTeamPlayers + k]

\* Resolved values of a league whose players all have clean data
PowerValues == {0, 1000, 3000}
PowerPositions == {"QB", "RB"}

\* (wins, losses) of roster.settings; 0 also stands for a missing field
WinLoss == {<<0, 0>>, <<1, 1>>}

\* a team's points in a scored week; 0 stands for a team without a matchup
WeekPoints == {0, 90, 120}

RECURSIVE ScoresOf(_, _, _)
ScoresOf(points, t, teams) ==
  IF t > teams THEN <<>>
  ELSE (IF points[t] = 0 THEN <<>> ELSE <<[roster_id |-> t, points |-> points[t]]>>)
       \o ScoresOf(points, t + 1, teams)

ScoredWeeks(teams) ==
  UNION {[1..n -> {[lines |-> <<>>, scores |-> ScoresOf(points, 1, teams)] :
                     points \in [1..teams -> WeekPoints]}]
         : n \in 0..MaxScoredWeeks}

\* one QB slot and one RB slot
PowerSlots == [c \in SlotClasses |-> IF c \in {"QB", "RB"} THEN 1 ELSE 0]

InitPower ==
  /\ pc = "loaded"
  /\ ScarcityIdle
  /\ TradeIdle
  /\ PipelineIdle
  /\ RecommendIdle
  /\ FairIdle
  /\ DepthIdle
  /\ SnapshotIdle
  /\ SummaryIdle
  /\ slots = PowerSlots
  /\ rosterPlayerIds = <<>>
  /\ lineup = NoLineup
  /\ tradeLineup = NoTradeLineup
  /\ teamLineups = <<>>
  /\ maxLineupValue = 0
  /\ powerRankings = <<>>
  /\ sleeperProjections = <<>>
  /\ dpLookup = <<>>
  /\ leagueType \in {"dynasty", "redraft"}
  /\ \E teams \in 1..MaxTeams :
       /\ matchups \in ScoredWeeks(teams)
       /\ \E sizes \in [1..teams -> 0..MaxTeamPlayers], wl \in [1..teams -> WinLoss] :
            /\ rosters = [t \in 1..teams |->
                            [roster_id |-> t, players |-> TeamIds(t, sizes[t]),
                             wins |-> wl[t][1], losses |-> wl[t][2]]]
            /\ players \in [1..(teams * MaxTeamPlayers) -> {Present(pos) : pos \in PowerPositions}]
            /\ playerValues \in [1..(teams * MaxTeamPlayers) -> {ValueEntry(v) : v \in PowerValues}]
            /\ \A t \in 1..teams : \A k \in 1..MaxTeamPlayers :
                 LET id == (t - 1) * MaxTeamPlayers + k
                 IN \* ids on no roster are fixed; rosters are listed by position
                    /\ k > sizes[t] => players[id] = Present("QB") /\ playerValues[id] = ValueEntry(0)
                    /\ (1 < k /\ k <= sizes[t]) =>
                         PositionIndex(players[id - 1].position) <= PositionIndex(players[id].position)

\* calculatePowerRankings: teamLineups and maxLineupValue
ComputeLineups ==
  /\ pc = "loaded"
  /\ rosters # <<>>
  /\ LET lineups == TeamLineups(rosters, playerValues, slots, players)
     IN /\ teamLineups' = lineups
        /\ maxLineupValue' = MaxTotal(lineups)
  /\ pc' = "lineups"
  /\ UNCHANGED <<lineupVars, scarcityVars, feedVars, rosters, powerRankings, notPower>>

\* calculatePowerRankings: the team scores, sorted and ranked (any order may
\* come out of a sort whose comparator meets a NaN)
RankTeams ==
  /\ pc = "lineups"
  /\ \E scored \in {[t \in 1..Len(rosters) |->
                         TeamScore(rosters[t], teamLineups, maxLineupValue, playerValues,
                                   players, matchups, leagueType)]} :
        \E order \in Permutations(1..Len(scored)) :
          powerRankings' = RankedBy(scored, order)
  /\ pc' = "scored"
  /\ UNCHANGED <<lineupVars, scarcityVars, feedVars, rosters, teamLineups, maxLineupValue,
                 notPower>>

NextPower == ComputeLineups \/ RankTeams

SpecPower == InitPower /\ [][NextPower]_vars

\* a defined number in [0, 100]
InScoreRange(x) == x.kind = "num" /\ x.num >= 0 /\ x.num <= 100 * x.den

\* C5: for every team of every league, the lineup value, performance,
\* positional advantage and depth scores and the power score are defined
\* numbers in [0, 100].
C5_ScoresInRange ==
  pc = "scored" =>
    \A i \in 1..Len(powerRankings) :
      /\ InScoreRange(powerRankings[i].lineupValueScore)
      /\ InScoreRange(powerRankings[i].performanceScore)
      /\ InScoreRange(powerRankings[i].positionalScore)
      /\ InScoreRange(powerRankings[i].depthScore)
      /\ InScoreRange(powerRankings[i].powerScore)

WeightSum(w) == w.lineup + w.performance + w.positional + w.depth

\* the roster record of a ranked team
RosterOf(rosterId) == rosters[CHOOSE t \in 1..Len(rosters) : rosters[t].roster_id = rosterId]

\* calculateTeamPowerScore of a ranked team, with its performance score
HypotheticalScore(team, weights) ==
  calculateTeamPowerScore(RosterOf(team.rosterId).players, playerValues, slots, players,
                          teamLineups, maxLineupValue, team.performanceScore, weights).powerScore

\* C22: the four weights of either league type sum to 1.0 (100 hundredths):
\* dynasty 0.50 / 0.30 / 0.15 / 0.05 and redraft 0.35 / 0.45 / 0.15 / 0.05;
\* the default weights of calculateTeamPowerScore are the dynasty set, so it
\* reproduces the power score of every team of a dynasty league.
C22_WeightsSumToOne ==
  pc = "scored" =>
    /\ Weights(leagueType) =
         (IF leagueType = "dynasty"
          THEN [lineup |-> 50, performance |-> 30, positional |-> 15, depth |-> 5]
          ELSE [lineup |-> 35, performance |-> 45, positional |-> 15, depth |-> 5])
    /\ WeightSum(Weights(leagueType)) = 100
    /\ WeightSum(DefaultWeights(NullWeights)) = 100
    /\ leagueType = "dynasty" =>
         \A i \in 1..Len(powerRankings) :
           HypotheticalScore(powerRankings[i], NullWeights) = powerRankings[i].powerScore

\* C22 witness: a dynasty team whose power score the default weights
\* reproduce and the redraft weights do not.
C22_Witness ==
  /\ pc = "scored"
  /\ leagueType = "dynasty"
  /\ \E i \in 1..Len(powerRankings) :
       /\ powerRankings[i].powerScore.kind = "num"
       /\ HypotheticalScore(powerRankings[i], NullWeights) = powerRankings[i].powerScore
       /\ HypotheticalScore(powerRankings[i], GivenWeights(Weights("redraft")))
            # powerRankings[i].powerScore

-----------------------------------------------------------------------------
(* Specification SpecTrade: the trade impact on bounded rosters and trades *)

TradeValues == {0, 500, 3000}
TradePositions == {"RB", "WR"}

\* rosters of one to MaxRoster players, listed position by position
TradeDirectories(n) ==
  {pl \in [1..n -> {Present(p) : p \in TradePositions}] :
     \A i \in 1..n : \A j \in 1..n :
       i < j => PositionIndex(pl[i].position) <= PositionIndex(pl[j].position)}

\* one WR slot; the RB slot and the FLEX slot may be missing
TradeSlots ==
  {[c \in SlotClasses |->
      CASE c = "WR" -> 1 [] c = "RB" -> r [] c = "FLEX" -> f [] OTHER -> 0]
     : r \in 0..1, f \in 0..1}

\* players of the other team (ids above the roster's ids)
Incoming ==
  {[playerId |-> 11, position |-> "RB", value |-> 600, isStarter |-> FALSE],
   [playerId |-> 12, position |-> "RB", value |-> 4000, isStarter |-> TRUE],
   [playerId |-> 13, position |-> "WR", value |-> 600, isStarter |-> FALSE]}

\* one or two of them, in id order
IncomingSides ==
  {<<a>> : a \in Incoming}
    \cup {<<a, b>> : <<a, b>> \in {ab \in Incoming \X Incoming : ab[1].playerId < ab[2].playerId}}

\* the roster positions of the one or two players a team gives, in roster order
GivenSides(n) ==
  {<<i>> : i \in 1..n} \cup {ij \in (1..n) \X (1..n) : ij[1] < ij[2]}

\* the other teams' best lineup total
LeagueBest == {0, 10000}

InitTrade ==
  /\ pc = "loaded"
  /\ ScarcityIdle
  /\ PipelineIdle
  /\ RecommendIdle
  /\ FairIdle
  /\ DepthIdle
  /\ SnapshotIdle
  /\ SummaryIdle
  /\ rosters = <<>>
  /\ teamLineups = <<>>
  /\ powerRankings = <<>>
  /\ sleeperProjections = <<>>
  /\ matchups = <<>>
  /\ dpLookup = <<>>
  /\ lineup = NoLineup
  /\ tradeLineup = NoTradeLineup
  /\ team1Impact = NoImpact
  /\ impact1 = NoImpact
  /\ leagueType \in {"dynasty", "redraft"}
  /\ slots \in TradeSlots
  /\ playersReceived \in IncomingSides
  /\ \E n \in 1..MaxRoster :
       /\ rosterPlayerIds = RosterIds(n)
       /\ players \in TradeDirectories(n)
       /\ playerValues \in [1..n -> {ValueEntry(v) : v \in TradeValues}]
       /\ playersGiven \in GivenSides(n)
  /\ \E best \in LeagueBest :
       maxLineupValue =
         Max(best, calculateOptimalLineupValue(rosterPlayerIds, playerValues, slots, players).totalValue)

\* the team's players with their isStarter flag, and the traded ones among them
Team == TeamPlayers(rosterPlayerIds, playerValues, players, tradeLineup.starterIds)
Given == [i \in 1..Len(playersGiven) |-> Team[playersGiven[i]]]

\* scoreTradeRecommendation: team1Impact = calculateTradeImpact(team1, ...)
ScoreTradeImpact ==
  /\ pc = "built"
  /\ team1Impact' = calculateTradeImpact(Given, playersReceived, maxLineupValue,
                                         analyzeTeamNeeds(Team, slots))
  /\ pc' = "scoredTrade"
  /\ UNCHANGED <<lineupVars, scarcityVars, feedVars, powerVars,
                 playersGiven, playersReceived, impact1, notTrade>>

\* generateTrades: impact1 = calculateImpact(team1Needs, ...)
GenerateTradeImpact ==
  /\ pc = "scoredTrade"
  /\ impact1' = calculateImpact(analyzeTeamNeeds(Team, slots), Given, playersReceived,
                                maxLineupValue)
  /\ pc' = "generatedTrade"
  /\ UNCHANGED <<lineupVars, scarcityVars, feedVars, powerVars,
                 playersGiven, playersReceived, team1Impact, notTrade>>

NextTrade ==
  OptimizeLineupValue \/ OptimizeTradeLineup \/ ScoreTradeImpact \/ GenerateTradeImpact

SpecTrade == InitTrade /\ [][NextTrade]_vars

NoStarterGiven == \A i \in 1..Len(Given) : ~Given[i].isStarter

\* every traded position is received at, and every received player is worth
\* strictly more than each player given at its position
HigherAtEveryPosition ==
  /\ \A i \in 1..Len(Given) :
       \E j \in 1..Len(playersReceived) : playersReceived[j].position = Given[i].position
  /\ \A j \in 1..Len(playersReceived) :
       /\ \E i \in 1..Len(Given) : Given[i].position = playersReceived[j].position
       /\ \A i \in 1..Len(Given) :
            Given[i].position = playersReceived[j].position =>
              playersReceived[j].value > Given[i].value

\* x >= 0 in JavaScript (false for NaN)
JsNonNegative(x) == ~IsNaN(x) /\ ~JsLess(x, Num(0))

BeatsWorstStarter(r) ==
  LET mine == {i \in 1..Len(Team) : Team[i].position = r.position}
      starters == Min(getRequiredStarters(r.position, slots), Cardinality(mine))
  IN /\ r.position \in NeedPositions
     /\ starters > 0
     /\ Cardinality({i \in mine : Team[i].value >= r.value}) < starters

SomeUpgrade == \E j \in 1..Len(playersReceived) : BeatsWorstStarter(playersReceived[j])

WeightedPowerChange(lineupImprovement) ==
  LET givenStarters == SelectSeq(Given, LAMBDA g : g.isStarter)
      netLineupImpact == JsSub(Num(lineupImprovement), Frac(SumValues(givenStarters), 2))
  IN RoundTenths(JsMul(JsMul(JsDiv(netLineupImpact, Num(maxLineupValue)), Num(100)),
                       Frac(Weights(leagueType).lineup, 100)))

\* C8: for both league types the estimated power change is
\* (netLineupImpact / maxLineupValue) * 100 * w rounded to one decimal, w being
\* the lineup weight the power score uses (0.50 dynasty, 0.35 redraft).
C8_PowerChangeWeight ==
  pc = "generatedTrade" =>
     /\ team1Impact.estimatedPowerChange = WeightedPowerChange(team1Impact.lineupImprovement)
     /\ impact1.estimatedPowerChange = WeightedPowerChange(impact1.lineupImprovement)

-----------------------------------------------------------------------------
(* Specification SpecPipeline: both loaders run twice on one snapshot      *)

\* rosters[...].performanceScore: the ranked team's performanceScore || 50
PerformanceOr50(rankings, rosterId) ==
  LET hits == {i \in 1..Len(rankings) : rankings[i].rosterId = rosterId}
      score == rankings[CHOOSE i \in hits : TRUE].performanceScore
  IN IF hits = {} \/ score.kind = "nan" \/ score.num = 0 THEN Num(50) ELSE score

\* every id on some roster
RosteredIds(rs) == UNION {SeqToSet(rs[t].players) : t \in 1..Len(rs)}

\* The object calculatePowerRankings returns; `time` is new Date().toISOString()
PowerRankingsOutput(rs, pv, pl, sl, mu, league, order, time) ==
  LET lineups == TeamLineups(rs, pv, sl, pl)
      maxValue == MaxTotal(lineups)
      rankings == RankedBy([t \in 1..Len(rs) |->
                              TeamScore(rs[t], lineups, maxValue, pv, pl, mu, league)], order)
  IN [rankings |-> rankings,
      league |-> [leagueType |-> league, isSuperFlex |-> isSuperflexLeague(sl),
                  rosterSlots |-> sl, totalTeams |-> Len(rs), weights |-> Weights(league)],
      playerValues |-> [id \in RosteredIds(rs) \cap DOMAIN pv |->
                          [position |-> pl[id].position, value |-> pv[id].value]],
      rosters |-> [t \in 1..Len(rs) |->
                     [players |-> rs[t].players,
                      performanceScore |-> PerformanceOr50(rankings, rs[t].roster_id)]],
      maxLineupValue |-> maxValue,
      weights |-> Weights(league),
      lastUpdated |-> time]

\* The teams, league and lastUpdated fields of the object generateRecommendations
\* returns
RecommendationsOutput(rs, pv, pl, sl, time) ==
  [teams |-> [t \in 1..Len(rs) |->
                LET lineupData == calculateOptimalLineup(rs[t].players, pv, sl, pl)
                    teamPlayers == TeamPlayers(rs[t].players, pv, pl, lineupData.starterIds)
                IN [rosterId |-> rs[t].roster_id,
                    needs |-> analyzeTeamNeeds(teamPlayers, sl),
                    playerCount |-> Len(teamPlayers),
                    totalValue |-> SumValues(teamPlayers)]],
   league |-> [isSuperFlex |-> isSuperflexLeague(sl), rosterSlots |-> sl],
   lastUpdated |-> time]

PipelineValues == {0, 3000}

InitPipeline ==
  /\ pc = "snapshot"
  /\ ScarcityIdle
  /\ TradeIdle
  /\ RecommendIdle
  /\ FairIdle
  /\ DepthIdle
  /\ SnapshotIdle
  /\ SummaryIdle
  /\ slots = PowerSlots
  /\ rosterPlayerIds = <<>>
  /\ lineup = NoLineup
  /\ tradeLineup = NoTradeLineup
  /\ teamLineups = <<>>
  /\ maxLineupValue = 0
  /\ powerRankings = <<>>
  /\ sleeperProjections = <<>>
  /\ dpLookup = <<>>
  /\ matchups = <<>>
  /\ now = 0
  /\ powerOutputs = <<>>
  /\ tradeOutputs = <<>>
  /\ leagueType \in {"dynasty", "redraft"}
  /\ engineOrder \in Permutations(1..MaxTeams)
  /\ \E sizes \in [1..MaxTeams -> 0..MaxTeamPlayers] :
       /\ rosters = [t \in 1..MaxTeams |->
                       [roster_id |-> t, players |-> TeamIds(t, sizes[t]),
                        wins |-> 0, losses |-> 0]]
       /\ players \in [1..(MaxTeams * MaxTeamPlayers) -> {Present(pos) : pos \in PowerPositions}]
       /\ playerValues \in [1..(MaxTeams * MaxTeamPlayers) -> {ValueEntry(v) : v \in PipelineValues}]
       /\ \A t \in 1..MaxTeams : \A k \in 1..MaxTeamPlayers :
            LET id == (t - 1) * MaxTeamPlayers + k
            IN /\ k > sizes[t] => players[id] = Present("QB") /\ playerValues[id] = ValueEntry(0)
               /\ (1 < k /\ k <= sizes[t]) =>
                    PositionIndex(players[id - 1].position) <= PositionIndex(players[id].position)

\* time passes between and during the runs
Tick ==
  /\ pc \in {"snapshot", "rankings"}
  /\ now < MaxClock
  /\ now' = now + 1
  /\ UNCHANGED <<pc, lineupVars, scarcityVars, feedVars, powerVars, tradeVars,
                 engineOrder, powerOutputs, tradeOutputs, notPipeline>>

\* process.stdout.write(JSON.stringify(await calculatePowerRankings()))
RunPowerRankings ==
  /\ pc = "snapshot"
  /\ Len(powerOutputs) < 2
  /\ powerOutputs' = Append(powerOutputs,
       PowerRankingsOutput(rosters, playerValues, players, slots, matchups, leagueType,
                           engineOrder, now))
  /\ pc' = "rankings"
  /\ UNCHANGED <<lineupVars, scarcityVars, feedVars, powerVars, tradeVars,
                 now, engineOrder, tradeOutputs, notPipeline>>

\* process.stdout.write(JSON.stringify(await generateRecommendations()))
RunRecommendations ==
  /\ pc = "rankings"
  /\ tradeOutputs' = Append(tradeOutputs,
       RecommendationsOutput(rosters, playerValues, players, slots, now))
  /\ pc' = "snapshot"
  /\ UNCHANGED <<lineupVars, scarcityVars, feedVars, powerVars, tradeVars,
                 now, engineOrder, powerOutputs, notPipeline>>

NextPipeline == Tick \/ RunPowerRankings \/ RunRecommendations

SpecPipeline == InitPipeline /\ [][NextPipeline]_vars

\* C6: two runs of the pipeline on the same snapshot write the same output,
\* field by field.
C6_RunsIdentical ==
  Len(tradeOutputs) = 2 =>
    /\ powerOutputs[1] = powerOutputs[2]
    /\ tradeOutputs[1] = tradeOutputs[2]

-----------------------------------------------------------------------------
(* Specification SpecFair: isFairTrade on bounded values and tolerances    *)

\* the default tolerance, the two the strategies pass, and the extremes
Tolerances == {Num(0), Frac(25, 100), VALUE_TOLERANCE_PERCENT, Frac(35, 100), Num(1)}

InitFair ==
  /\ pc = "loaded"
  /\ LineupIdle
  /\ slots = ValueSlots
  /\ ScarcityIdle
  /\ FeedsIdle
  /\ PowerIdle
  /\ TradeIdle
  /\ PipelineIdle
  /\ RecommendIdle
  /\ side1 \in 0..MaxFairValue
  /\ side2 \in 0..MaxFairValue
  /\ fairTolerance \in Tolerances
  /\ fairness = NoFairness
  /\ DepthIdle
  /\ SnapshotIdle
  /\ SummaryIdle

\* the command-line engine's isFairTrade, called with the sides in both orders
TestFairTrade ==
  /\ pc = "loaded"
  /\ fairness' = [fairness EXCEPT !.engine = <<isFairTrade(side1, side2, fairTolerance),
                                               isFairTrade(side2, side1, fairTolerance)>>]
  /\ pc' = "engineFair"
  /\ UNCHANGED <<lineupVars, scarcityVars, feedVars, powerVars, tradeVars, pipelineVars,
                 recommendVars, depthVars, snapshotVars, summaryVars, side1, side2,
                 fairTolerance>>

\* the data loader's isFairTrade, called with the sides in both orders
TestFairTradeLoader ==
  /\ pc = "engineFair"
  /\ fairness' = [fairness EXCEPT !.loader = <<isFairTradeLoader(side1, side2, fairTolerance),
                                               isFairTradeLoader(side2, side1, fairTolerance)>>]
  /\ pc' = "loaderFair"
  /\ UNCHANGED <<lineupVars, scarcityVars, feedVars, powerVars, tradeVars, pipelineVars,
                 recommendVars, depthVars, snapshotVars, summaryVars, side1, side2,
                 fairTolerance>>

NextFair == TestFairTrade \/ TestFairTradeLoader

SpecFair == InitFair /\ [][NextFair]_vars

\* C17: isFairTrade(a, b, t) = isFairTrade(b, a, t) for all non-negative
\* values a, b (0 included) and every tolerance t, in both programs.
C17_FairnessSymmetric ==
  /\ pc \in {"engineFair", "loaderFair"} => fairness.engine[1] = fairness.engine[2]
  /\ pc = "loaderFair" => fairness.loader[1] = fairness.loader[2]

\* C17 witness: unequal sides whose difference is within the tolerance of the
\* larger side but not of the smaller one are fair in both argument orders,
\* and a zero side against a positive side is unfair in both.
C17_Witness ==
  /\ pc = "loaderFair"
  /\ \/ /\ side1 = 3 /\ side2 = 4 /\ fairTolerance = VALUE_TOLERANCE_PERCENT
        /\ fairness.engine = <<TRUE, TRUE>> /\ fairness.loader = <<TRUE, TRUE>>
     \/ /\ side1 = 0 /\ side2 = 4 /\ fairTolerance = VALUE_TOLERANCE_PERCENT
        /\ fairness.engine = <<FALSE, FALSE>> /\ fairness.loader = <<FALSE, FALSE>>

-----------------------------------------------------------------------------
(* Specification SpecRecommend: trade generation, scoring and ranking on   *)
(* bounded leagues                                                         *)

\* team t holds the ids 3(t - 1) + 1 .. 3t
RecommendIds(t) == [k \in 1..MaxRecommendPlayers |-> (t - 1) * MaxRecommendPlayers + k]

\* the positions of a team's three players: two RB and a WR, or an RB and two WR
RosterPatterns == {<<"RB", "RB", "WR">>, <<"RB", "WR", "WR">>}

\* The values a league draws from: a depth-level and a star-level value; in
\* some leagues every WR is worth 0 (parseInt(...) || 0 of matchPlayerValues)
RecommendValues == {1000, 3000}

\* one RB slot, and a WR slot or none
RecommendSlots ==
  {[c \in SlotClasses |-> CASE c = "RB" -> 1 [] c = "WR" -> w [] OTHER -> 0] : w \in 0..1}

\* every order in which the pairs of n teams can be searched
PairOrders(n) ==
  LET pairs == TeamPairs(n)
  IN {[k \in 1..Len(pairs) |-> pairs[perm[k]]] : perm \in Permutations(1..Len(pairs))}

\* A league of three teams in which one pair has a swap that upgrades both
\* lineups by little and another pair a swap that upgrades one lineup by much
UpgradePositions == <<"RB", "RB", "WR", "WR", "WR", "RB", "RB", "RB", "WR">>
UpgradeValues == <<5000, 3000, 2900, 5000, 3000, 2900, 2500, 2500, 200>>

\* A league with one RB slot and two FLEX slots: required starters are
\* ceil(1 + 2 * 0.33) = 2 RB and ceil(2 * 0.33) = 1 WR, and the lineups of
\* teams 1 and 2 start all three of their players
FlexPositionsOf == <<"RB", "RB", "RB", "RB", "WR", "WR", "RB", "WR", "WR">>
FlexValues == <<3000, 3000, 2000, 3000, 3000, 2000, 1000, 1000, 1000>>

RecommendRosters ==
  [t \in 1..MaxRecommendTeams |->
     [roster_id |-> t, players |-> RecommendIds(t), wins |-> 0, losses |-> 0]]

InitRecommend ==
  /\ pc = "snapshot"
  /\ ScarcityIdle
  /\ FeedsIdle
  /\ TradeIdle
  /\ PipelineIdle
  /\ FairIdle
  /\ DepthIdle
  /\ SnapshotIdle
  /\ SummaryIdle
  /\ rosterPlayerIds = <<>>
  /\ lineup = NoLineup
  /\ tradeLineup = NoTradeLineup
  /\ teamLineups = <<>>
  /\ maxLineupValue = 0
  /\ powerRankings = <<>>
  /\ allTeams = <<>>
  /\ needsByTeam = <<>>
  /\ emitted = <<>>
  /\ recommendations = <<>>
  /\ potentialTrades = <<>>
  /\ pairRecommendations = <<>>
  /\ leagueRecommendations = <<>>
  /\ rosters = RecommendRosters
  /\ pairOrder \in PairOrders(MaxRecommendTeams)
  /\ \/ /\ slots \in RecommendSlots
        /\ \E patterns \in {q \in [1..MaxRecommendTeams -> RosterPatterns] :
                              q[MaxRecommendTeams] = <<"RB", "WR", "WR">>} :
             players = [id \in 1..(MaxRecommendTeams * MaxRecommendPlayers) |->
                          Present(patterns[((id - 1) \div MaxRecommendPlayers) + 1]
                                          [((id - 1) % MaxRecommendPlayers) + 1])]
        /\ \E worths \in [1..(MaxRecommendTeams * MaxRecommendPlayers) -> RecommendValues] :
             \/ playerValues = [id \in DOMAIN worths |-> ValueEntry(worths[id])]
             \/ playerValues = [id \in DOMAIN worths |->
                                  ValueEntry(IF players[id].position = "WR" THEN 0
                                             ELSE worths[id])]
     \/ /\ slots = [c \in SlotClasses |-> IF c \in {"RB", "WR"} THEN 1 ELSE 0]
        /\ players = [id \in 1..9 |-> Present(UpgradePositions[id])]
        /\ playerValues = [id \in 1..9 |-> ValueEntry(UpgradeValues[id])]
     \/ /\ slots = [c \in SlotClasses |-> CASE c = "RB" -> 1 [] c = "FLEX" -> 2 [] OTHER -> 0]
        /\ players = [id \in 1..9 |-> Present(FlexPositionsOf[id])]
        /\ playerValues = [id \in 1..9 |-> ValueEntry(FlexValues[id])]

\* generateRecommendations up to teamNeeds (the engine's getTeamRoster and
\* analyzeTeamNeeds build the same records from the power rankings file)
BuildTeamData ==
  /\ pc = "snapshot"
  /\ \E ts \in {BuildTeams(rosters, playerValues, slots, players)} :
       /\ allTeams' = ts
       /\ maxLineupValue' = MaxStarterTotal(ts)
       /\ needsByTeam' = [t \in 1..Len(ts) |-> TeamNeeds(ts[t].players, LeaguePlayers(ts), slots)]
  /\ pc' = "teams"
  /\ UNCHANGED <<lineupVars, scarcityVars, feedVars, rosters, teamLineups, powerRankings,
                 tradeVars, pipelineVars, fairVars, depthVars, snapshotVars, summaryVars,
                 pairOrder, emitted, recommendations,
                 potentialTrades, pairRecommendations, leagueRecommendations>>

\* generateRecommendations: the loop over the team pairs, the sort, the removal
\* of duplicates and the slice
GenerateRecommendations ==
  /\ pc = "teams"
  /\ \E trades \in {EmittedTrades(allTeams, needsByTeam, maxLineupValue, pairOrder)} :
       /\ emitted' = trades
       /\ recommendations' = RankEmitted(trades, needsByTeam)
  /\ pc' = "recommended"
  /\ UNCHANGED <<lineupVars, scarcityVars, feedVars, powerVars, tradeVars, pipelineVars,
                 fairVars, depthVars, snapshotVars, summaryVars, pairOrder, allTeams,
                 needsByTeam, potentialTrades,
                 pairRecommendations, leagueRecommendations>>

\* main of the command-line engine without arguments: the scan over the team
\* pairs and the sort by score
ScanLeague ==
  /\ pc = "recommended"
  /\ \E potential \in {[k \in 1..Len(pairOrder) |->
                          PotentialTrades(allTeams[pairOrder[k][1]], allTeams[pairOrder[k][2]],
                                          needsByTeam[pairOrder[k][1]],
                                          needsByTeam[pairOrder[k][2]])]} :
       \E pairLists \in {[k \in 1..Len(pairOrder) |->
                            RankPair(potential[k], needsByTeam[pairOrder[k][1]],
                                     needsByTeam[pairOrder[k][2]], maxLineupValue)]} :
         /\ potentialTrades' = Flatten(potential)
         /\ pairRecommendations' = pairLists
         /\ leagueRecommendations' = LeagueScan(pairLists)
  /\ pc' = "scanned"
  /\ UNCHANGED <<lineupVars, scarcityVars, feedVars, powerVars, tradeVars, pipelineVars,
                 fairVars, depthVars, snapshotVars, summaryVars, pairOrder, allTeams,
                 needsByTeam, emitted, recommendations>>

NextRecommend == BuildTeamData \/ GenerateRecommendations \/ ScanLeague

SpecRecommend == InitRecommend /\ [][NextRecommend]_vars

-----------------------------------------------------------------------------
(* Claims about trade generation and ranking                               *)

\* (max - min) / max <= num / 100 for the summed values a and b of two sides
WithinTolerance(a, b, num) == Max(a, b) > 0 /\ 100 * (Max(a, b) - Min(a, b)) <= num * Max(a, b)

\* the tolerance of a trade's classification, in hundredths
ToleranceOf(type) ==
  CASE type \in {"1-for-1 (complementary)", "1-for-1 (need)"} -> 30
    [] type \in {"1-for-1 (value)", "1-for-1"} -> 25
    [] type \in {"1-for-2", "2-for-1"} -> 35

AllFair(trades) ==
  \A n \in 1..Len(trades) :
    WithinTolerance(SumValues(trades[n].team1Gives), SumValues(trades[n].team2Gives),
                    ToleranceOf(trades[n].type))

\* C13: every candidate trade generation emits passes the fairness predicate
\* (max - min) / max <= tolerance on the summed values of its two sides, with
\* the tolerance of its classification (0.30 complementary and need, 0.25
\* value swap, 0.35 consolidation).
C13_CandidatesFair ==
  /\ pc \in {"recommended", "scanned"} => AllFair(emitted)
  /\ pc = "scanned" => AllFair(potentialTrades)

HasType(trades, type) == \E n \in 1..Len(trades) : trades[n].type = type

\* C13 witness: the loader emitted a value swap and a consolidation trade,
\* the engine a need-fulfilment and a consolidation trade, while some bench
\* swap of the league was too uneven to be emitted.
C13_Witness ==
  /\ pc = "scanned"
  /\ HasType(emitted, "1-for-1")
  /\ (HasType(emitted, "2-for-1") \/ HasType(emitted, "1-for-2"))
  /\ HasType(potentialTrades, "1-for-1 (need)")
  /\ (HasType(potentialTrades, "2-for-1") \/ HasType(potentialTrades, "1-for-2"))
  /\ \E i \in 1..Len(allTeams) : \E j \in 1..Len(allTeams) :
       /\ i < j
       /\ \E p \in SeqToSet(needsByTeam[i]["RB"].bench) :
            \E q \in SeqToSet(needsByTeam[j]["WR"].bench) :
              /\ p.value >= 2 * MIN_VALUE_THRESHOLD /\ q.value >= 2 * MIN_VALUE_THRESHOLD
              /\ ~WithinTolerance(p.value, q.value, 25)

\* both-upgrade candidates first, and non-increasing scores within each group
UpgradesFirst(list) ==
  \A i \in 1..Len(list) : \A j \in 1..Len(list) :
    i < j =>
      /\ list[j].bothHaveUpgrades => list[i].bothHaveUpgrades
      /\ list[i].bothHaveUpgrades = list[j].bothHaveUpgrades =>
           JsLessEq(list[j].score, list[i].score)

\* C14: in every ranked recommendation list (per team pair and league-wide)
\* the candidates in which both teams get a starter upgrade come before all
\* others whatever the scores, and each of the two groups is in non-increasing
\* score order.
C14_UpgradesFirst ==
  /\ pc \in {"recommended", "scanned"} => UpgradesFirst(recommendations)
  /\ pc = "scanned" =>
       /\ UpgradesFirst(leagueRecommendations)
       /\ \A k \in 1..Len(pairRecommendations) : UpgradesFirst(pairRecommendations[k])

\* the exchange of a recommendation: who gives which players
Exchange(t) ==
  <<{t.team1Gives[i].playerId : i \in 1..Len(t.team1Gives)},
    {t.team2Gives[i].playerId : i \in 1..Len(t.team2Gives)}>>

Copies(list, t) == Cardinality({n \in 1..Len(list) : Exchange(list[n]) = Exchange(t)})

\* C15: no two recommendations of an output list are the same exchange (same
\* players given by team 1, same players given by team 2), and an exchange
\* that was generated several times with a positive score is kept exactly once.
C15_KeysUnique ==
  /\ pc \in {"recommended", "scanned"} =>
       /\ \A n \in 1..Len(recommendations) : Copies(recommendations, recommendations[n]) = 1
       /\ \A n \in 1..Len(emitted) :
            PositiveScore(scoreTrade(emitted[n], needsByTeam[emitted[n].team1Id],
                                     needsByTeam[emitted[n].team2Id]))
              => Copies(recommendations, emitted[n]) = 1
  /\ pc = "scanned" =>
       /\ \A n \in 1..Len(leagueRecommendations) :
            Copies(leagueRecommendations, leagueRecommendations[n]) = 1
       /\ \A k \in 1..Len(pairRecommendations) : \A n \in 1..Len(pairRecommendations[k]) :
            Copies(pairRecommendations[k], pairRecommendations[k][n]) = 1

\* C15 witness: an exchange was emitted more than once and is in the output
\* exactly once.
C15_Witness ==
  /\ pc = "recommended"
  /\ \E n \in 1..Len(recommendations) :
       /\ Copies(emitted, recommendations[n]) > 1
       /\ Copies(recommendations, recommendations[n]) = 1

C18_RatiosDefined ==
  pc \in {"teams", "recommended", "scanned"} =>
    \A t \in 1..Len(needsByTeam) : \A pos \in NeedPositions :
      needsByTeam[t][pos].needScore.kind = "num"

\* the candidates generation returned for the k-th pair searched
PairCandidates(k) ==
  {n \in 1..Len(potentialTrades) :
     /\ potentialTrades[n].team1Id = allTeams[pairOrder[k][1]].rosterId
     /\ potentialTrades[n].team2Id = allTeams[pairOrder[k][2]].rosterId}

\* no candidate of the k-th pair has a positive score
NonePasses(k) ==
  \A n \in PairCandidates(k) :
    ~PositiveScore(scoreTradeRecommendation(potentialTrades[n], needsByTeam[pairOrder[k][1]],
                                            needsByTeam[pairOrder[k][2]], maxLineupValue))

\* every recommendation of the k-th pair is in the league-wide list
PairMerged(k) ==
  \A n \in 1..Len(pairRecommendations[k]) :
    \E m \in 1..Len(leagueRecommendations) :
      leagueRecommendations[m] = pairRecommendations[k][n]

\* C23: a pair of teams none of whose candidates passes generation, fairness
\* and the filter on a positive score gets an empty recommendation list, and
\* the league-wide scan goes on: every pair has a list and the league-wide
\* list holds the recommendations of all the pairs.
C23_EmptyPairContinues ==
  pc = "scanned" =>
    /\ Len(pairRecommendations) = Len(pairOrder)
    /\ \A k \in 1..Len(pairOrder) : NonePasses(k) => pairRecommendations[k] = <<>>
    /\ \A k \in 1..Len(pairOrder) : PairMerged(k)
    /\ Len(leagueRecommendations) = Len(Flatten(pairRecommendations))

\* C23 witness: a pair without a passing candidate was searched before a pair
\* with recommendations, and those are in the league-wide list.
C23_Witness ==
  /\ pc = "scanned"
  /\ \E k, l \in 1..Len(pairOrder) :
       /\ k < l
       /\ NonePasses(k)
       /\ pairRecommendations[k] = <<>>
       /\ pairRecommendations[l] # <<>>
       /\ PairMerged(l)

\* the ids of the players on one side of a trade
SideIds(side) == {side[i].playerId : i \in 1..Len(side)}

\* the ids on the roster with the given roster_id
RosterIdsOf(rosterId) ==
  UNION {{rosters[r].players[i] : i \in 1..Len(rosters[r].players)} :
           r \in {q \in 1..Len(rosters) : rosters[q].roster_id = rosterId}}

\* one or two players a side, not two on both; each side from the giving
\* team's roster; no player twice on a side
WellShaped(t) ==
  /\ Len(t.team1Gives) \in 1..2
  /\ Len(t.team2Gives) \in 1..2
  /\ Len(t.team1Gives) + Len(t.team2Gives) \in 2..3
  /\ SideIds(t.team1Gives) \subseteq RosterIdsOf(t.team1Id)
  /\ SideIds(t.team2Gives) \subseteq RosterIdsOf(t.team2Id)
  /\ Cardinality(SideIds(t.team1Gives)) = Len(t.team1Gives)
  /\ Cardinality(SideIds(t.team2Gives)) = Len(t.team2Gives)

\* C24: every generated candidate is a 1-for-1, a 1-for-2 or a 2-for-1, every
\* player on a side is on the giving team's roster, and the two players of a
\* two-player side are distinct.
C24_CandidateShapes ==
  /\ pc \in {"recommended", "scanned"} =>
       \A n \in 1..Len(emitted) : WellShaped(emitted[n])
  /\ pc = "scanned" =>
       \A n \in 1..Len(potentialTrades) : WellShaped(potentialTrades[n])

\* C24 witness: both programs generated a 1-for-1, a 1-for-2 and a 2-for-1.
C24_Witness ==
  /\ pc = "scanned"
  /\ \A shape \in {<<1, 1>>, <<1, 2>>, <<2, 1>>} :
       /\ \E n \in 1..Len(emitted) :
            <<Len(emitted[n].team1Gives), Len(emitted[n].team2Gives)>> = shape
       /\ \E n \in 1..Len(potentialTrades) :
            <<Len(potentialTrades[n].team1Gives), Len(potentialTrades[n].team2Gives)>> = shape

\* every candidate of the loader and of the engine with its score, kept or not
\* by the filter on a positive score
ScoredByLoader ==
  [n \in 1..Len(emitted) |->
     scoreTrade(emitted[n], needsByTeam[emitted[n].team1Id], needsByTeam[emitted[n].team2Id])]

ScoredByEngine ==
  [n \in 1..Len(potentialTrades) |->
     scoreTradeRecommendation(potentialTrades[n], needsByTeam[potentialTrades[n].team1Id],
                              needsByTeam[potentialTrades[n].team2Id], maxLineupValue)]

\* the score of a scored trade without the fairness bonus, before it is rounded
ScoreBeforeFairness(t) ==
  JsAdd(JsMul(JsAdd(t.team1Impact.estimatedPowerChange, t.team2Impact.estimatedPowerChange),
              Num(10)),
        Num(PositionalFit(t.team1Gives, needsByTeam[t.team1Id], needsByTeam[t.team2Id])
              + PositionalFit(t.team2Gives, needsByTeam[t.team2Id], needsByTeam[t.team1Id])
              + (IF t.team1Impact.wouldImproveLineup THEN 25 ELSE 0)
              + (IF t.team2Impact.wouldImproveLineup THEN 25 ELSE 0)
              + 20 * (Len(t.team1Impact.starterUpgrades) + Len(t.team2Impact.starterUpgrades))
              + (IF t.bothImprove THEN 40 ELSE 0)
              + (IF t.bothHaveUpgrades THEN 50 ELSE 0)))

AlwaysFair(t) ==
  /\ t.team1Impact.netValue + t.team2Impact.netValue = 0
  /\ t.fairExchange
  /\ t.score = RoundTenths(JsAdd(ScoreBeforeFairness(t), Num(20)))

\* C27: the two net values of every scored candidate sum to 0, so fairExchange
\* is true and the score of every candidate includes the 20 points of the
\* fairness bonus.
C27_FairExchangeAlways ==
  /\ pc \in {"recommended", "scanned"} =>
       \A n \in 1..Len(emitted) : AlwaysFair(ScoredByLoader[n])
  /\ pc = "scanned" =>
       \A n \in 1..Len(potentialTrades) : AlwaysFair(ScoredByEngine[n])

\* C27 witness: both programs scored a candidate whose sides differ in value
\* by 800 or more, and it has the fairness flag.
C27_Witness ==
  /\ pc = "scanned"
  /\ \E n \in 1..Len(emitted) :
       /\ Abs(ScoredByLoader[n].team1Impact.netValue) >= 800
       /\ ScoredByLoader[n].fairExchange
  /\ \E n \in 1..Len(potentialTrades) :
       /\ Abs(ScoredByEngine[n].team1Impact.netValue) >= 800
       /\ ScoredByEngine[n].fairExchange

\* wouldImproveLineup and starterUpgrades agree in both impacts of a scored
\* trade, and so do the two flags computed from them
UpgradeFlagsAgree(t) ==
  /\ t.team1Impact.wouldImproveLineup <=> Len(t.team1Impact.starterUpgrades) > 0
  /\ t.team2Impact.wouldImproveLineup <=> Len(t.team2Impact.starterUpgrades) > 0
  /\ t.bothImprove <=> t.bothHaveUpgrades

\* exactly one team of a scored trade would start a player it receives
OneSideUpgrades(t) ==
  Len(t.team1Impact.starterUpgrades) > 0 <=> Len(t.team2Impact.starterUpgrades) = 0

\* C28: in every trade impact wouldImproveLineup is true exactly when
\* starterUpgrades is non-empty, so bothImprove equals bothHaveUpgrades for
\* every scored candidate.
C28_ImproveIffUpgrades ==
  /\ pc \in {"recommended", "scanned"} =>
       \A n \in 1..Len(emitted) : UpgradeFlagsAgree(ScoredByLoader[n])
  /\ pc = "scanned" =>
       \A n \in 1..Len(potentialTrades) : UpgradeFlagsAgree(ScoredByEngine[n])

\* C28 witness: the engine scored a candidate that upgrades both lineups and
\* one that upgrades one lineup only.
C28_Witness ==
  /\ pc = "scanned"
  /\ \E n \in 1..Len(potentialTrades) :
       ScoredByEngine[n].bothImprove /\ ScoredByEngine[n].bothHaveUpgrades
  /\ \E n \in 1..Len(potentialTrades) :
       OneSideUpgrades(ScoredByEngine[n]) /\ ~ScoredByEngine[n].bothImprove

\* the ids the optimal lineup of the team with the given rosterId starts
LineupStarterIds(rosterId) ==
  UNION {UsedIds(allTeams[t].starters) :
           t \in {q \in 1..Len(allTeams) : allTeams[q].rosterId = rosterId}}

\* no player of a side carries the starter flag or is in the giving team's
\* optimal lineup
NoLineupStarterOn(side, rosterId) ==
  \A i \in 1..Len(side) :
    ~side[i].isStarter /\ side[i].playerId \notin LineupStarterIds(rosterId)

\* estimatedPowerChange >= 0
NoPowerLoss(impact) == JsLessEq(Num(0), impact.estimatedPowerChange)

BenchOnly(t) ==
  /\ NoLineupStarterOn(t.team1Gives, t.team1Id)
  /\ NoLineupStarterOn(t.team2Gives, t.team2Id)
  /\ StarterLoss(t.team1Gives) = Num(0)
  /\ StarterLoss(t.team2Gives) = Num(0)
  /\ NoPowerLoss(t.team1Impact)
  /\ NoPowerLoss(t.team2Impact)

\* C26: no player either side of a generated candidate gives is a starter of
\* the giving team's optimal lineup, so the penalty for giving up starters is
\* 0 and the estimated power change is at least 0 on both sides.
C26_OnlyBenchTraded ==
  /\ pc \in {"recommended", "scanned"} =>
       \A n \in 1..Len(emitted) : BenchOnly(ScoredByLoader[n])
  /\ pc = "scanned" =>
       \A n \in 1..Len(potentialTrades) : BenchOnly(ScoredByEngine[n])

-----------------------------------------------------------------------------
(* Specification SpecDepth: the depth score of bounded rosters             *)

DepthValues == {500, 1000, 3000}

\* a directory entry per rostered id: a QB, an RB, a kicker, or no entry
DepthDirectory == {Present("QB"), Present("RB"), Present("K"), Missing}

\* a league that starts one QB, and one that starts a QB, an RB and a FLEX
DepthSlots ==
  {[c \in SlotClasses |-> IF c = "QB" THEN 1 ELSE 0],
   [c \in SlotClasses |-> IF c \in {"QB", "RB", "FLEX"} THEN 1 ELSE 0]}

InitDepth ==
  /\ pc = "loaded"
  /\ ScarcityIdle
  /\ FeedsIdle
  /\ PowerIdle
  /\ TradeIdle
  /\ PipelineIdle
  /\ RecommendIdle
  /\ FairIdle
  /\ DepthIdle
  /\ SnapshotIdle
  /\ SummaryIdle
  /\ lineup = NoLineup
  /\ tradeLineup = NoTradeLineup
  /\ slots \in DepthSlots
  /\ \E n \in 0..MaxDepthRoster :
       /\ rosterPlayerIds = RosterIds(n)
       /\ players \in [1..n -> DepthDirectory]
       /\ playerValues \in [1..n -> {ValueEntry(v) : v \in DepthValues}]

\* calculatePowerRankings: depthScore = calculateDepthScore(roster.players,
\* playerValues, teamLineup.starters, players)
ScoreDepth ==
  /\ pc = "ranked"
  /\ depthResult' = calculateDepthScore(rosterPlayerIds, playerValues, lineup.starters, players)
  /\ pc' = "depth"
  /\ UNCHANGED <<lineupVars, scarcityVars, feedVars, powerVars, tradeVars, pipelineVars,
                 recommendVars, fairVars, snapshotVars, summaryVars>>

NextDepth == OptimizeLineupValue \/ ScoreDepth

SpecDepth == InitDepth /\ [][NextDepth]_vars

\* the rostered players of a position that are in the directory and do not start
Backups(pos) ==
  {id \in SeqToSet(rosterPlayerIds) :
     /\ players[id].present /\ players[id].position = pos
     /\ \A i \in 1..Len(lineup.starters) : lineup.starters[i].playerId # id}

\* the value of the best backup of a position, 0 for a position without one
BestBackup(pos) ==
  IF Backups(pos) = {} THEN 0
  ELSE CHOOSE v \in {playerValues[id].value : id \in Backups(pos)} :
         \A id \in Backups(pos) : playerValues[id].value <= v

BackedPositions == {pos \in {"QB", "RB", "WR", "TE"} : Backups(pos) # {}}

BackupTotal == BestBackup("QB") + BestBackup("RB") + BestBackup("WR") + BestBackup("TE")

\* C20: the depth score is min(100, 100 * sum / (2000 * n)), where the sum
\* takes the single best non-starter of each of QB, RB, WR, TE and n counts
\* the positions among them that have a non-starter; a position without one
\* is in neither.
C20_DepthScore ==
  (pc = "depth" /\ BackedPositions # {}) =>
    /\ depthResult.kind = "num"
    /\ IF BackupTotal >= 2000 * Cardinality(BackedPositions)
       THEN depthResult.num = 100 * depthResult.den
       ELSE depthResult.num * 20 * Cardinality(BackedPositions) = depthResult.den * BackupTotal

\* C20 witness: two RBs of different values and a kicker sit on the bench,
\* no QB does, and the score is the 50 of the better RB alone.
C20_Witness ==
  /\ pc = "depth"
  /\ BackedPositions = {"RB"}
  /\ Cardinality(Backups("RB")) = 2
  /\ \E id \in Backups("RB") : playerValues[id].value = 500
  /\ BestBackup("RB") = 1000
  /\ Backups("K") # {}
  /\ depthResult.num = 50 * depthResult.den

-----------------------------------------------------------------------------
(* Specification SpecRank: the ranking of leagues of three teams           *)

RankValues == {1000, 3000}

\* Three teams of zero to two quarterbacks, no matchup played yet: a team of
\* two has a starter and a backup, a smaller team has no backup
InitRank ==
  /\ pc = "loaded"
  /\ ScarcityIdle
  /\ TradeIdle
  /\ PipelineIdle
  /\ RecommendIdle
  /\ FairIdle
  /\ DepthIdle
  /\ SnapshotIdle
  /\ SummaryIdle
  /\ slots = PowerSlots
  /\ rosterPlayerIds = <<>>
  /\ lineup = NoLineup
  /\ tradeLineup = NoTradeLineup
  /\ teamLineups = <<>>
  /\ maxLineupValue = 0
  /\ powerRankings = <<>>
  /\ sleeperProjections = <<>>
  /\ dpLookup = <<>>
  /\ matchups = <<>>
  /\ leagueType \in {"dynasty", "redraft"}
  /\ \E sizes \in [1..MaxRankTeams -> 0..MaxTeamPlayers], wl \in [1..MaxRankTeams -> WinLoss] :
       /\ rosters = [t \in 1..MaxRankTeams |->
                       [roster_id |-> t, players |-> TeamIds(t, sizes[t]),
                        wins |-> wl[t][1], losses |-> wl[t][2]]]
       /\ players = [id \in 1..(MaxRankTeams * MaxTeamPlayers) |-> Present("QB")]
       /\ playerValues \in [1..(MaxRankTeams * MaxTeamPlayers) -> {ValueEntry(v) : v \in RankValues}]
       /\ \A t \in 1..MaxRankTeams : \A k \in 1..MaxTeamPlayers :
            \* ids on no roster are fixed
            k > sizes[t] => playerValues[(t - 1) * MaxTeamPlayers + k] = ValueEntry(1000)

NextRank == ComputeLineups \/ RankTeams

SpecRank == InitRank /\ [][NextRank]_vars

\* C21: after ranking, the power ranks of a league of T teams are 1..T, each
\* used once; a team of a lower rank number never has a smaller power score
\* than a team of a higher rank number; teams of equal power score keep
\* their roster order.
C21_RanksOrdered ==
  pc = "scored" =>
    /\ Len(powerRankings) = Len(rosters)
    /\ \A i \in 1..Len(powerRankings) : powerRankings[i].powerRank = i
    /\ \A i \in 1..Len(powerRankings) : \A j \in 1..Len(powerRankings) :
         i < j =>
           /\ ~JsLess(powerRankings[i].powerScore, powerRankings[j].powerScore)
           /\ (/\ powerRankings[i].powerScore.kind = "num"
               /\ powerRankings[i].powerScore = powerRankings[j].powerScore)
                => powerRankings[i].rosterId < powerRankings[j].rosterId

-----------------------------------------------------------------------------
(* Specification SpecSnapshot: the scarcity multipliers of a historical    *)
(* trade, looked up by the snapshot loader and by the trade analyzer       *)

\* getSeasonPhaseScarcity of the snapshot loader; its two tables hold the
\* values of STATIC_SCARCITY_FALLBACK and SUPERFLEX_SCARCITY_FALLBACK
getSeasonPhaseScarcity(week, isSF) ==
  LET base == IF isSF THEN SUPERFLEX_SCARCITY_FALLBACK ELSE STATIC_SCARCITY_FALLBACK
  IN IF week <= 3 THEN [base EXCEPT !["RB"] = RoundDiv(@ * 110, 100)]
     ELSE IF week >= 10 /\ week <= 13
          THEN [base EXCEPT !["TE"] = RoundDiv(@ * 110, 100), !["RB"] = RoundDiv(@ * 105, 100)]
          ELSE IF week >= 14 THEN [base EXCEPT !["QB"] = RoundDiv(@ * 110, 100)]
               ELSE base

\* .sort((a, b) => Math.abs(a.week - tradeWeek) - Math.abs(b.week - tradeWeek)): stable
RECURSIVE SortByWeekDistance(_, _)
SortByWeekDistance(s, tradeWeek) ==
  IF s = <<>> THEN <<>>
  ELSE LET rest == SortByWeekDistance(SubSeq(s, 1, Len(s) - 1), tradeWeek)
           e == s[Len(s)]
           Near(x) == Abs(x.week - tradeWeek) <= Abs(e.week - tradeWeek)
       IN SelectSeq(rest, Near) \o <<e>> \o SelectSeq(rest, LAMBDA x : ~Near(x))

\* findSnapshotForTrade of the snapshot loader
findSnapshotForTrade(snapshots, tradeSeason, tradeWeek, isSF) ==
  LET exact == SelectSeq(snapshots, LAMBDA x : x.season = tradeSeason /\ x.week = tradeWeek)
      sameSeasonSnapshots ==
        SortByWeekDistance(SelectSeq(snapshots, LAMBDA x : x.season = tradeSeason), tradeWeek)
  IN IF exact # <<>> THEN [source |-> "exact", snapshot |-> Head(exact)]
     ELSE IF sameSeasonSnapshots # <<>>
          THEN [source |-> "closest", snapshot |-> Head(sameSeasonSnapshots),
                weekDifference |-> Abs(Head(sameSeasonSnapshots).week - tradeWeek)]
          ELSE [source |-> "fallback",
                snapshot |-> [season |-> tradeSeason, week |-> tradeWeek,
                              scarcityMultipliers |-> getSeasonPhaseScarcity(tradeWeek, isSF),
                              isFallback |-> TRUE]]

\* getVorScarcityForTrade of the trade analyzer
getVorScarcityForTrade(history, tradeSeason, tradeWeek, isSF) ==
  LET baseFallback == IF isSF THEN SUPERFLEX_SCARCITY_FALLBACK ELSE STATIC_SCARCITY_FALLBACK
      exact == SelectSeq(history.snapshots,
                         LAMBDA x : x.season = tradeSeason /\ x.week = tradeWeek)
      sameSeasonSnapshots ==
        SortByWeekDistance(SelectSeq(history.snapshots, LAMBDA x : x.season = tradeSeason),
                           tradeWeek)
  IN IF history.snapshots = <<>>
     THEN [multipliers |->
             IF tradeWeek <= 3 THEN [baseFallback EXCEPT !["RB"] = RoundDiv(@ * 110, 100)]
             ELSE IF tradeWeek >= 10 /\ tradeWeek <= 13
                  THEN [baseFallback EXCEPT !["TE"] = RoundDiv(@ * 110, 100)]
                  ELSE IF tradeWeek >= 14
                       THEN [baseFallback EXCEPT !["QB"] = RoundDiv(@ * 110, 100)]
                       ELSE baseFallback,
           source |-> "season-phase-fallback"]
     ELSE IF exact # <<>>
          THEN [multipliers |-> Head(exact).scarcityMultipliers, source |-> "exact-snapshot"]
          ELSE IF sameSeasonSnapshots # <<>>
               THEN [multipliers |-> Head(sameSeasonSnapshots).scarcityMultipliers,
                     source |-> "closest-snapshot"]
               ELSE IF history.currentSnapshot.present
                    THEN [multipliers |-> history.currentSnapshot.scarcityMultipliers,
                          source |-> "current-snapshot"]
                    ELSE [multipliers |-> baseFallback, source |-> "static-fallback"]

\* the multiplier tables power-rankings.json.js has stored in snapshots
SnapshotTables ==
  {("QB" :> 90) @@ ("RB" :> 160) @@ ("WR" :> 110) @@ ("TE" :> 130) @@ ("K" :> 20) @@ ("DEF" :> 25),
   ("QB" :> 150) @@ ("RB" :> 140) @@ ("WR" :> 95) @@ ("TE" :> 115) @@ ("K" :> 20) @@ ("DEF" :> 25)}

SnapshotSeasons == {2023, 2024}
SnapshotWeeks == {2, 6, 12}
TradeWeeks == {1, 2, 4, 5, 11, 14}

StoredSnapshots ==
  [season : SnapshotSeasons, week : SnapshotWeeks, scarcityMultipliers : SnapshotTables]

\* the history holds one snapshot for a season and week
Histories ==
  UNION {{h \in [1..n -> StoredSnapshots] :
            \A i, j \in 1..n : i # j => <<h[i].season, h[i].week>> # <<h[j].season, h[j].week>>} :
         n \in 0..MaxSnapshots}

InitSnapshot ==
  /\ pc = "history"
  /\ LineupIdle
  /\ slots = ValueSlots
  /\ ScarcityIdle
  /\ FeedsIdle
  /\ PowerIdle
  /\ TradeIdle
  /\ PipelineIdle
  /\ RecommendIdle
  /\ FairIdle
  /\ DepthIdle
  /\ SummaryIdle
  /\ snapshotChoice = [loader |-> NoChoice, analyzer |-> NoChoice]
  /\ \E h \in Histories :
       \E current \in {NoSnapshot} \cup {[present |-> TRUE, scarcityMultipliers |-> t] :
                                           t \in SnapshotTables} :
         vorSnapshots = [snapshots |-> h, currentSnapshot |-> current]
  /\ historicalTrade \in [season : SnapshotSeasons, week : TradeWeeks, isSF : BOOLEAN]

\* the snapshot loader's lookup for the trade
FindSnapshot ==
  /\ pc = "history"
  /\ snapshotChoice' =
       [snapshotChoice EXCEPT !.loader =
          findSnapshotForTrade(vorSnapshots.snapshots, historicalTrade.season,
                               historicalTrade.week, historicalTrade.isSF)]
  /\ pc' = "found"
  /\ UNCHANGED <<lineupVars, scarcityVars, feedVars, powerVars, tradeVars, pipelineVars,
                 recommendVars, fairVars, depthVars, summaryVars, vorSnapshots, historicalTrade>>

\* the trade analyzer's lookup for the same trade
GetVorScarcity ==
  /\ pc = "found"
  /\ snapshotChoice' =
       [snapshotChoice EXCEPT !.analyzer =
          getVorScarcityForTrade(vorSnapshots, historicalTrade.season,
                                 historicalTrade.week, historicalTrade.isSF)]
  /\ pc' = "analysed"
  /\ UNCHANGED <<lineupVars, scarcityVars, feedVars, powerVars, tradeVars, pipelineVars,
                 recommendVars, fairVars, depthVars, summaryVars, vorSnapshots, historicalTrade>>

NextSnapshot == FindSnapshot \/ GetVorScarcity

SpecSnapshot == InitSnapshot /\ [][NextSnapshot]_vars

\* the snapshots of the trade's season, and those of its week among them
OfSeason == SelectSeq(vorSnapshots.snapshots, LAMBDA x : x.season = historicalTrade.season)
OfWeek == SelectSeq(OfSeason, LAMBDA x : x.week = historicalTrade.week)

\* the multipliers are those of the snapshot of the trade's season and week, or
\* else of a snapshot of the season no other is closer to in weeks
FollowsOrder(multipliers) ==
  IF OfWeek # <<>> THEN multipliers = Head(OfWeek).scarcityMultipliers
  ELSE IF OfSeason # <<>>
       THEN \E i \in 1..Len(OfSeason) :
              /\ multipliers = OfSeason[i].scarcityMultipliers
              /\ \A j \in 1..Len(OfSeason) :
                   Abs(OfSeason[i].week - historicalTrade.week)
                     <= Abs(OfSeason[j].week - historicalTrade.week)
       ELSE TRUE

\* C25: the multipliers of a historical trade are those of the exact season and
\* week snapshot, else of the same-season snapshot closest in week, else a
\* fallback, and the trade analyzer's getVorScarcityForTrade returns the same
\* multipliers as the snapshot loader's findSnapshotForTrade.
C25_SameMultipliers ==
  pc = "analysed" =>
    /\ FollowsOrder(snapshotChoice.loader.snapshot.scarcityMultipliers)
    /\ FollowsOrder(snapshotChoice.analyzer.multipliers)
    /\ snapshotChoice.analyzer.multipliers = snapshotChoice.loader.snapshot.scarcityMultipliers

-----------------------------------------------------------------------------
(* Specification SpecSummary: one run of the weekly summary generator over *)
(* bounded matchup data and stored summaries                               *)

RECURSIVE SumScores(_)
SumScores(matchupScores) ==
  IF matchupScores = <<>> THEN 0
  ELSE Head(matchupScores).team1Score + Head(matchupScores).team2Score
         + SumScores(Tail(matchupScores))

\* allScores.filter(s => s > 0).length
RECURSIVE NonZeroCount(_)
NonZeroCount(matchupScores) ==
  IF matchupScores = <<>> THEN 0
  ELSE (IF Head(matchupScores).team1Score > 0 THEN 1 ELSE 0)
         + (IF Head(matchupScores).team2Score > 0 THEN 1 ELSE 0)
         + NonZeroCount(Tail(matchupScores))

\* Mutant of areScoresComplete: the test on the average score is left out.
areScoresCompleteWithoutAverage(matchupScores) ==
  IF matchupScores = <<>> THEN FALSE
  ELSE IF SumScores(matchupScores) = 0 THEN FALSE
       ELSE ~(2 * NonZeroCount(matchupScores) < 2 * Len(matchupScores))

\* areScoresComplete: allScores holds two scores for every matchup
areScoresComplete(matchupScores) ==
  IF matchupScores = <<>> THEN FALSE
  ELSE LET count == 2 * Len(matchupScores)
           totalScore == SumScores(matchupScores)
       IN IF totalScore = 0 THEN FALSE
          ELSE IF totalScore < 20 * count THEN FALSE
               ELSE IF 2 * NonZeroCount(matchupScores) < count THEN FALSE
                    ELSE TRUE

\* extractMatchupScores(processWeekData(weekData, ...).matchups)
ExtractedScores(weekData) == weekData.scores

NoSummary ==
  [exists |-> FALSE, hasScores |-> FALSE, matchupScores |-> <<>>, mentionsZero |-> FALSE,
   generatedAt |-> 0]

\* the file saveSummary writes
saveSummary(matchupScores, mentionsZero, generatedAt) ==
  [exists |-> TRUE, hasScores |-> TRUE, matchupScores |-> matchupScores,
   mentionsZero |-> mentionsZero, generatedAt |-> generatedAt]

\* isWeekComplete: a week before the latest one, or the clock past Tuesday 10 PM
isWeekComplete(week, latestComplete) == week < Len(weeklyMatchups) \/ latestComplete

\* the all-weeks branch of main for one week: "new", "changed" or "none"
WeekStatus(week) ==
  LET existing == summaryFiles[week]
      current == ExtractedScores(weeklyMatchups[week])
  IN IF ~isWeekComplete(week, summaryRun.latestComplete) THEN "none"
     ELSE IF ~existing.exists THEN "new"
     ELSE IF existing.hasScores
          THEN (IF existing.matchupScores # current THEN "changed" ELSE "none")
          ELSE IF /\ current # <<>>
                  /\ SumScores(current) > 50 * 2 * Len(current)
                  /\ existing.mentionsZero
               THEN "changed" ELSE "none"

WeeksWith(status) ==
  SelectSeq([w \in 1..Len(weeklyMatchups) |-> w], LAMBDA w : WeekStatus(w) = status)

\* the scores two teams of a matchup can have: unplayed, one team played, a
\* few points in, and final
ScorePairs ==
  {[team1Score |-> a, team2Score |-> b] :
     <<a, b>> \in {<<0, 0>>, <<0, 120>>, <<10, 10>>, <<120, 120>>}}

WeekScores == UNION {[1..n -> ScorePairs] : n \in 0..MaxMatchups}

\* what the summary directory can hold for a week whose scores are `scores`
StoredFor(scores) ==
  {NoSummary,
   saveSummary(scores, FALSE, 0),
   saveSummary([i \in 1..Len(scores) |-> [team1Score |-> 0, team2Score |-> 0]], TRUE, 0)}
    \cup {[exists |-> TRUE, hasScores |-> FALSE, matchupScores |-> <<>>, mentionsZero |-> z,
           generatedAt |-> 0] : z \in BOOLEAN}

InitSummary ==
  /\ pc = "start"
  /\ LineupIdle
  /\ slots = ValueSlots
  /\ ScarcityIdle
  /\ FeedsIdle
  /\ PowerIdle
  /\ TradeIdle
  /\ PipelineIdle
  /\ RecommendIdle
  /\ FairIdle
  /\ DepthIdle
  /\ SnapshotIdle
  /\ allWeeksToProcess = <<>>
  /\ \E n \in 1..MaxSummaryWeeks :
       /\ weeklyMatchups \in [1..n -> [week : {0}, scores : WeekScores]]
       /\ \A w \in 1..n : weeklyMatchups[w].week = 0
       /\ summaryFiles \in [1..n -> UNION {StoredFor(sc) : sc \in WeekScores}]
       /\ \A w \in 1..n : summaryFiles[w] \in StoredFor(weeklyMatchups[w].scores)
       /\ summaryRun \in [specificWeek : 0..(n + 1), number : {1}, latestComplete : BOOLEAN]

\* main up to allWeeksToProcess; 0 stands for the undefined that
\* matchups.find returns for a week not in the data
StartRun ==
  /\ pc = "start"
  /\ allWeeksToProcess' =
       IF summaryRun.specificWeek # 0
       THEN (IF summaryRun.specificWeek \in 1..Len(weeklyMatchups)
             THEN <<summaryRun.specificWeek>> ELSE <<0>>)
       ELSE WeeksWith("new") \o WeeksWith("changed")
  /\ pc' = IF allWeeksToProcess' = <<>> THEN "done" ELSE "processing"
  /\ UNCHANGED <<lineupVars, scarcityVars, feedVars, powerVars, tradeVars, pipelineVars,
                 recommendVars, fairVars, depthVars, snapshotVars, weeklyMatchups,
                 summaryFiles, summaryRun>>

\* one pass of `for (const weekData of allWeeksToProcess)`: the check of the
\* scores, then the summary request, which can fail, and saveSummary
ProcessWeek ==
  /\ pc = "processing"
  /\ allWeeksToProcess # <<>>
  /\ LET week == Head(allWeeksToProcess)
     IN IF week = 0 THEN UNCHANGED summaryFiles
        ELSE LET matchupScores == ExtractedScores(weeklyMatchups[week])
             IN IF ~areScoresComplete(matchupScores) THEN UNCHANGED summaryFiles
                ELSE \E requestFails \in BOOLEAN, mentionsZero \in BOOLEAN :
                       summaryFiles' =
                         IF requestFails THEN summaryFiles
                         ELSE [summaryFiles EXCEPT ![week] =
                                 saveSummary(matchupScores, mentionsZero, summaryRun.number)]
  /\ allWeeksToProcess' = Tail(allWeeksToProcess)
  /\ UNCHANGED <<pc, lineupVars, scarcityVars, feedVars, powerVars, tradeVars, pipelineVars,
                 recommendVars, fairVars, depthVars, snapshotVars, weeklyMatchups, summaryRun>>

\* the loop has run out of weeks
FinishRun ==
  /\ pc = "processing"
  /\ allWeeksToProcess = <<>>
  /\ pc' = "done"
  /\ UNCHANGED <<lineupVars, scarcityVars, feedVars, powerVars, tradeVars, pipelineVars,
                 recommendVars, fairVars, depthVars, snapshotVars, summaryVars>>

NextSummary == StartRun \/ ProcessWeek \/ FinishRun

SpecSummary == InitSummary /\ [][NextSummary]_vars

\* the completeness check as stated: at least one matchup, a total above 0, an
\* average of at least 20 and at least half of the scores not zero
AllScoresOf(week) ==
  Flatten([i \in 1..Len(weeklyMatchups[week].scores) |->
             <<weeklyMatchups[week].scores[i].team1Score,
               weeklyMatchups[week].scores[i].team2Score>>])

RECURSIVE SumOf(_)
SumOf(scores) == IF scores = <<>> THEN 0 ELSE Head(scores) + SumOf(Tail(scores))

PassesCheck(week) ==
  LET scores == AllScoresOf(week)
  IN /\ Len(weeklyMatchups[week].scores) >= 1
     /\ SumOf(scores) > 0
     /\ SumOf(scores) >= 20 * Len(scores)
     /\ 2 * Cardinality({i \in 1..Len(scores) : scores[i] # 0}) >= Len(scores)

\* C30: in a run of the generator, with or without a week argument, the file
\* of a week changes only if the week's scores pass the completeness check; a
\* week that fails it is skipped and its stored summary stays as it was.
C30_OnlyCompleteWeeksWritten ==
  [][\A week \in DOMAIN summaryFiles :
       summaryFiles'[week] # summaryFiles[week] => PassesCheck(week)]_vars

\* C30 witness: a run over all weeks has written the summary of a week whose
\* scores pass the check and has skipped a week whose scores changed and fail
\* it, leaving the stored summary of that week.
C30_Witness ==
  /\ pc = "done"
  /\ summaryRun.specificWeek = 0
  /\ \E week \in DOMAIN summaryFiles :
       PassesCheck(week) /\ summaryFiles[week].generatedAt = summaryRun.number
  /\ \E week \in DOMAIN summaryFiles :
       /\ ~PassesCheck(week)
       /\ isWeekComplete(week, summaryRun.latestComplete)
       /\ summaryFiles[week].exists
       /\ summaryFiles[week].hasScores
       /\ summaryFiles[week].matchupScores # weeklyMatchups[week].scores
       /\ summaryFiles[week].generatedAt = 0

====
